---- MODULE Spec2Model ----
(***************************************************************************)
(* The sesame vault engine (db.rs, catalog.rs, items.rs, crypto.rs,        *)
(* util.rs) as a state machine.                                            *)
(*                                                                         *)
(* Persisted state is the SQLite file: the three tables header, catalog    *)
(* and items.  A session is the Vault value {conn, key} returned by        *)
(* Vault::open.  Every handler is one action.  A handler is computed as    *)
(* the sequence of persisted images its statements and commits leave       *)
(* behind, so that an error return and a crash are both "the file as the   *)
(* last commit left it".                                                   *)
(*                                                                         *)
(* Cryptography is symbolic: a key is the tuple of the inputs Argon2id     *)
(* hashed, a ciphertext remembers the key, nonce and plaintext it was made *)
(* from, and decryption authenticates iff key and nonce are the same.      *)
(* getrandom is a source that never repeats a value (the counter rng): it  *)
(* yields salts and nonces.  Item ids are 16 random bytes too; they are    *)
(* drawn from the ids the vault does not hold (spec 3: ids are assumed     *)
(* globally unique).                                                       *)
(***************************************************************************)
EXTENDS Integers, Sequences, FiniteSets, TLC

VARIABLES
    db,        \* the vault file: [header, catalog, items]
    session,   \* <<>> when no Vault is open, <<key>> for Vault.key
    rng,       \* getrandom: the next value it yields
    last,      \* the last handler call: its name, inputs and result
    clean,     \* history: no crash so far and no open with a wrong password
    orphaned   \* history: ids whose add stopped between its two commits

vars == <<db, session, rng, last, clean, orphaned>>

---------------------------------------------------------------------------
(* Bounds of the model *)

\* how many values getrandom yields after the initial state
MaxRand == 3

\* now_unix() takes the values 1..MaxTime
MaxTime == 2

Times == 1..MaxTime

\* item ids (hex strings, as sequences of characters)
Id1 == <<"a","b","c","d","1">>
Id2 == <<"a","b","c","d","2">>
Ids == {Id1, Id2}

\* master passwords
Passwords == {"pw1", "pw2"}

\* what the user types at the prompts of add (before trim)
AddTitles == { <<"a"," ">> }
AddUsernames == { <<"u">> }
AddPasswords == { <<"p">> }
AddNotes == { <<"n">> }

\* what the user types at the prompts of edit (before trim); <<>> is Enter
EditTitles == { <<" ">>, <<"B">> }
EditUsernames == { <<"v">> }
EditPasswords == { <<>>, <<"q">> }
EditNotes == { <<>> }

---------------------------------------------------------------------------
(* Program constants *)

FormatVersion == 1
KdfMemKib == 262144
KdfIters == 3
KdfParallelism == 1

---------------------------------------------------------------------------
(* util.rs *)

RECURSIVE TrimStart(_)
TrimStart(s) ==
    IF s # <<>> /\ Head(s) = " " THEN TrimStart(Tail(s)) ELSE s

RECURSIVE TrimEnd(_)
TrimEnd(s) ==
    IF s # <<>> /\ s[Len(s)] = " " THEN TrimEnd(SubSeq(s, 1, Len(s) - 1)) ELSE s

\* str::trim
Trim(s) == TrimEnd(TrimStart(s))

\* read_line: the line typed, trimmed
read_line(typed) == Trim(typed)

\* prompt_with_default: Enter (or blanks) keeps the current value
prompt_with_default(current, typed) ==
    LET s == Trim(typed) IN IF s = <<>> THEN current ELSE s

\* prompt_password_optional: None (<<>>) on Enter, Some(pw) (<<pw>>) otherwise
prompt_password_optional(typed) ==
    IF typed = <<>> THEN <<>> ELSE <<typed>>

---------------------------------------------------------------------------
(* crypto.rs *)

\* derive_key: Argon2id is deterministic in (password, salt, params)
derive_key(password, salt, mem_kib, iters, parallelism) ==
    <<password, salt, mem_kib, iters, parallelism>>

\* load_kdf_params + derive_key on the header row h
derive_key_from_header(h, password) ==
    derive_key(password, h.kdf_salt, h.kdf_mem_kib, h.kdf_iters, h.kdf_parallelism)

\* encrypt_blob: nonce is the 12 bytes getrandom yielded; returns (ct, nonce)
encrypt_blob(key, plaintext, nonce) ==
    [ct |-> [k |-> key, n |-> nonce, pt |-> plaintext], nonce |-> nonce]

\* decrypt_blob with the AEAD tag ignored
decrypt_blob_noauth(key, nonce, ct) == <<ct.pt>>

\* decrypt_blob: Ok(pt) is <<pt>>, Err (tag mismatch) is <<>>
decrypt_blob(key, nonce, ct) ==
    IF ct.k = key /\ ct.n = nonce THEN <<ct.pt>> ELSE <<>>

---------------------------------------------------------------------------
(* The SQLite file *)

\* the file before the first open: no table holds a row
EmptyDb == [header |-> {}, catalog |-> {}, items |-> <<>>]

\* the single row of a table that holds one row
TheRow(table) == CHOOSE r \in table : TRUE

\* the image the last of the steps left in the file
Final(pre, steps) == IF steps = <<>> THEN pre ELSE steps[Len(steps)]

\* statements run with every one of them committed as it is executed
NoTransaction(pre, writes, commit) ==
    writes \o (IF commit /\ writes # <<>> THEN <<writes[Len(writes)]>> ELSE <<>>)

\* conn.unchecked_transaction() ... tx.commit(): the images of the file after
\* each statement and after the commit.  Until the commit the file holds what
\* it held before; a transaction dropped without commit is rolled back.
InTransaction(pre, writes, commit) ==
    [k \in 1..Len(writes) |-> pre]
        \o (IF commit /\ writes # <<>> THEN <<writes[Len(writes)]>> ELSE <<>>)

---------------------------------------------------------------------------
(* catalog.rs *)

\* serde_json::to_vec(entries): an array of objects, fields in struct order
to_json_catalog(entries) ==
    [k \in 1..Len(entries) |->
        <<entries[k].id, entries[k].title, entries[k].updated_at>>]

\* serde_json::from_slice::<Vec<CatalogEntry>>
from_json_catalog(pt) ==
    [k \in 1..Len(pt) |-> [id |-> pt[k][1], title |-> pt[k][2], updated_at |-> pt[k][3]]]

\* an ensure_empty_catalog that writes the encrypted "[]" at every open
ensure_empty_catalog_always(d, key, nonce, now) ==
    LET enc == encrypt_blob(key, to_json_catalog(<<>>), nonce)
        row == [nonce |-> enc.nonce, ciphertext |-> enc.ct, updated_at |-> now]
    IN <<d, [d EXCEPT !.catalog = {row}]>>

\* ensure_empty_catalog: insert the encrypted "[]" when the table is empty
ensure_empty_catalog(d, key, nonce, now) ==
    IF d.catalog = {}
    THEN LET enc == encrypt_blob(key, to_json_catalog(<<>>), nonce)
             row == [nonce |-> enc.nonce, ciphertext |-> enc.ct, updated_at |-> now]
         IN InTransaction(d, <<[d EXCEPT !.catalog = {row}]>>, TRUE)
    ELSE <<>>

\* load_catalog: [ok, entries]
load_catalog(d, key) ==
    IF d.catalog = {} THEN [ok |-> FALSE, entries |-> <<>>]
    ELSE LET row == TheRow(d.catalog)
             pt == decrypt_blob(key, row.nonce, row.ciphertext)
         IN IF pt = <<>> THEN [ok |-> FALSE, entries |-> <<>>]
            ELSE IF pt[1] = <<>> THEN [ok |-> TRUE, entries |-> <<>>]
            ELSE [ok |-> TRUE, entries |-> from_json_catalog(pt[1])]

\* save_catalog: UPDATE catalog ... WHERE id = 1, in its own transaction
save_catalog(d, key, entries, nonce, now) ==
    LET enc == encrypt_blob(key, to_json_catalog(entries), nonce)
        row == [nonce |-> enc.nonce, ciphertext |-> enc.ct, updated_at |-> now]
        d1 == [d EXCEPT !.catalog = IF d.catalog = {} THEN {} ELSE {row}]
    IN InTransaction(d, <<d1>>, TRUE)

---------------------------------------------------------------------------
(* items.rs *)

\* serde_json::to_vec(&item): one object, fields in struct order
to_json_item(item) == <<item.title, item.username, item.password, item.notes>>

\* a decoding that reads the notes from the password's place
from_json_item_notes_from_password(pt) ==
    [title |-> pt[1], username |-> pt[2], password |-> pt[3], notes |-> pt[3]]

\* serde_json::from_slice::<ItemPlain>
from_json_item(pt) ==
    [title |-> pt[1], username |-> pt[2], password |-> pt[3], notes |-> pt[4]]

\* load_item: [res, item]
load_item(d, key, id) ==
    IF id \notin DOMAIN d.items THEN [res |-> "err_notfound", item |-> <<>>]
    ELSE LET row == d.items[id]
             pt == decrypt_blob(key, row.nonce, row.ciphertext)
         IN IF pt = <<>> THEN [res |-> "err_auth", item |-> <<>>]
            ELSE IF Len(pt[1]) # 4 THEN [res |-> "err_decode", item |-> <<>>]
            ELSE [res |-> "ok", item |-> <<from_json_item(pt[1])>>]

\* the positions of the entries with this id
Positions(entries, id) == {k \in 1..Len(entries) : entries[k].id = id}

\* entries.iter_mut().find(|e| e.id == id): the first such position
FirstPosition(entries, id) ==
    CHOOSE k \in Positions(entries, id) : \A j \in Positions(entries, id) : k <= j

\* add's catalog update with the push forgotten
AddCatalogEntryNoPush(entries, id, title, now) ==
    IF Positions(entries, id) # {}
    THEN [entries EXCEPT ![FirstPosition(entries, id)] =
              [@ EXCEPT !.title = title, !.updated_at = now]]
    ELSE entries

\* add_item_interactive, "Update catalog": replace the entry with the id,
\* else push
AddCatalogEntry(entries, id, title, now) ==
    IF Positions(entries, id) # {}
    THEN [entries EXCEPT ![FirstPosition(entries, id)] =
              [@ EXCEPT !.title = title, !.updated_at = now]]
    ELSE Append(entries, [id |-> id, title |-> title, updated_at |-> now])

\* add_item_interactive: typed is what the user typed at the four prompts
add_item_interactive(d, key, typed, id, now, r) ==
    LET title == read_line(typed.title)
        item == [title |-> title, username |-> read_line(typed.username),
                 password |-> typed.password, notes |-> read_line(typed.notes)]
        enc == encrypt_blob(key, to_json_item(item), r)
        row == [nonce |-> enc.nonce, ciphertext |-> enc.ct,
                created_at |-> now, updated_at |-> now]
        d1 == [d EXCEPT !.items = (id :> row) @@ d.items]
        tx1 == InTransaction(d, <<d1>>, TRUE)
        cat == load_catalog(d1, key)
        entries == AddCatalogEntry(cat.entries, id, title, now)
    IN IF id \in DOMAIN d.items
       THEN [steps |-> <<>>, res |-> "err_conflict", used |-> 1, draws |-> <<>>]
       ELSE IF ~cat.ok
       THEN [steps |-> tx1, res |-> "err_auth", used |-> 1, draws |-> <<1, 1>>]
       ELSE [steps |-> tx1 \o save_catalog(d1, key, entries, r + 1, now),
             res |-> "ok", used |-> 2, draws |-> <<1, 1, 2, 2>>]

\* edit's field update that always overwrites the password
ApplyEditAlwaysPassword(item, typed) ==
    [title |-> prompt_with_default(item.title, typed.title),
     username |-> prompt_with_default(item.username, typed.username),
     password |-> typed.password,
     notes |-> prompt_with_default(item.notes, typed.notes)]

\* edit_item, step 2: Enter keeps a field; the password changes only when
\* one was typed
ApplyEdit(item, typed) ==
    LET pw_opt == prompt_password_optional(typed.password)
    IN [title |-> prompt_with_default(item.title, typed.title),
        username |-> prompt_with_default(item.username, typed.username),
        password |-> IF pw_opt # <<>> THEN pw_opt[1] ELSE item.password,
        notes |-> prompt_with_default(item.notes, typed.notes)]

\* edit's catalog update without the branch that adds a missing entry back
EditCatalogEntryNoPush(entries, id, title, now) ==
    IF Positions(entries, id) # {}
    THEN [entries EXCEPT ![FirstPosition(entries, id)] =
              [@ EXCEPT !.title = title, !.updated_at = now]]
    ELSE entries

\* edit's catalog update with the entry pushed whether or not one exists
EditCatalogEntryAlwaysPush(entries, id, title, now) ==
    Append(entries, [id |-> id, title |-> title, updated_at |-> now])

\* edit_item, step 4: update the entry's title and updated_at, or add the
\* entry back when the catalog missed it
EditCatalogEntry(entries, id, title, now) ==
    IF Positions(entries, id) # {}
    THEN [entries EXCEPT ![FirstPosition(entries, id)] =
              [@ EXCEPT !.title = title, !.updated_at = now]]
    ELSE Append(entries, [id |-> id, title |-> title, updated_at |-> now])

\* edit_item
edit_item(d, key, id, typed, now, r) ==
    LET cur == load_item(d, key, id)
        item == ApplyEdit(cur.item[1], typed)
        enc == encrypt_blob(key, to_json_item(item), r)
        d1 == [d EXCEPT !.items[id] =
                  [@ EXCEPT !.nonce = enc.nonce, !.ciphertext = enc.ct,
                            !.updated_at = now]]
        tx1 == InTransaction(d, <<d1>>, TRUE)
        cat == load_catalog(d1, key)
        entries == EditCatalogEntry(cat.entries, id, item.title, now)
    IN IF cur.res # "ok"
       THEN [steps |-> <<>>, res |-> cur.res, used |-> 0, draws |-> <<>>]
       ELSE IF ~cat.ok
       THEN [steps |-> tx1, res |-> "err_auth", used |-> 1, draws |-> <<1, 1>>]
       ELSE [steps |-> tx1 \o save_catalog(d1, key, entries, r + 1, now),
             res |-> "ok", used |-> 2, draws |-> <<1, 1, 2, 2>>]

\* entries.retain(|e| e.id != id)
RECURSIVE Retain(_, _)
Retain(entries, id) ==
    IF entries = <<>> THEN <<>>
    ELSE IF Head(entries).id = id THEN Retain(Tail(entries), id)
    ELSE <<Head(entries)>> \o Retain(Tail(entries), id)

\* a delete_item whose DELETE is rolled back when the catalog does not load
delete_item_rolled_back(d, key, id, now, r) ==
    LET rows == IF id \in DOMAIN d.items THEN 1 ELSE 0
        d1 == [d EXCEPT !.items = [i \in (DOMAIN d.items) \ {id} |-> d.items[i]]]
        tx1 == InTransaction(d, <<d1>>, TRUE)
        cat == load_catalog(d1, key)
        entries == Retain(cat.entries, id)
    IN IF rows = 0
       THEN [steps |-> InTransaction(d, <<d>>, FALSE), res |-> "ok_notfound",
             used |-> 0, draws |-> <<0>>]
       ELSE IF ~cat.ok
       THEN [steps |-> InTransaction(d, <<d1>>, FALSE), res |-> "err_auth",
             used |-> 0, draws |-> <<0>>]
       ELSE [steps |-> tx1 \o save_catalog(d1, key, entries, r, now),
             res |-> "ok", used |-> 1, draws |-> <<0, 0, 1, 1>>]

\* delete_item: zero rows deleted returns Ok at once, the transaction dropped
delete_item(d, key, id, now, r) ==
    LET rows == IF id \in DOMAIN d.items THEN 1 ELSE 0
        d1 == [d EXCEPT !.items = [i \in (DOMAIN d.items) \ {id} |-> d.items[i]]]
        tx1 == InTransaction(d, <<d1>>, TRUE)
        cat == load_catalog(d1, key)
        entries == Retain(cat.entries, id)
    IN IF rows = 0
       THEN [steps |-> InTransaction(d, <<d>>, FALSE), res |-> "ok_notfound",
             used |-> 0, draws |-> <<0>>]
       ELSE IF ~cat.ok
       THEN [steps |-> tx1, res |-> "err_auth", used |-> 0, draws |-> <<0, 0>>]
       ELSE [steps |-> tx1 \o save_catalog(d1, key, entries, r, now),
             res |-> "ok", used |-> 1, draws |-> <<0, 0, 1, 1>>]

---------------------------------------------------------------------------
(* db.rs *)

\* an ensure_header that writes a header with a new salt at every open
ensure_header_always(d, salt) ==
    <<d, [d EXCEPT !.header =
                {[format_version |-> FormatVersion, kdf_salt |-> salt,
                  kdf_mem_kib |-> KdfMemKib, kdf_iters |-> KdfIters,
                  kdf_parallelism |-> KdfParallelism]}]>>

\* ensure_header: insert the header row with a random salt and the fixed KDF
\* parameters when the table is empty
ensure_header(d, salt) ==
    IF d.header = {}
    THEN LET h == [format_version |-> FormatVersion, kdf_salt |-> salt,
                   kdf_mem_kib |-> KdfMemKib, kdf_iters |-> KdfIters,
                   kdf_parallelism |-> KdfParallelism]
         IN InTransaction(d, <<[d EXCEPT !.header = {h}]>>, TRUE)
    ELSE <<>>

\* Vault::open: schema and header, the key from the header, the catalog row
open(d, password, now, r) ==
    LET hs == ensure_header(d, r)
        d1 == Final(d, hs)
        r1 == IF hs = <<>> THEN r ELSE r + 1
        key == derive_key_from_header(TheRow(d1.header), password)
        cs == ensure_empty_catalog(d1, key, r1, now)
        u1 == IF hs = <<>> THEN 0 ELSE 1
        u2 == u1 + (IF cs = <<>> THEN 0 ELSE 1)
    IN [steps |-> hs \o cs, res |-> "ok", key |-> key, used |-> u2,
        draws |-> [k \in 1..Len(hs) |-> u1] \o [k \in 1..Len(cs) |-> u2]]

\* the re-encryption of a row under the nonce the row already has
ReencryptItemKeepNonce(row, old_key, new_key, nonce, now) ==
    LET pt == decrypt_blob(old_key, row.nonce, row.ciphertext)
        enc == encrypt_blob(new_key, pt[1], row.nonce)
    IN IF pt = <<>> THEN <<>>
       ELSE <<[row EXCEPT !.nonce = enc.nonce, !.ciphertext = enc.ct,
                          !.updated_at = now]>>

\* the loop body of set_master_password: decrypt with the old key and the
\* row's nonce, encrypt with the new key and a new nonce, UPDATE the row.
\* <<>> when the decryption fails.
ReencryptItem(row, old_key, new_key, nonce, now) ==
    LET pt == decrypt_blob(old_key, row.nonce, row.ciphertext)
        enc == encrypt_blob(new_key, pt[1], nonce)
    IN IF pt = <<>> THEN <<>>
       ELSE <<[row EXCEPT !.nonce = enc.nonce, !.ciphertext = enc.ct,
                          !.updated_at = now]>>

\* a re-encryption of the catalog that stamps every entry with the time
ReencryptCatalogStamped(row, old_key, new_key, nonce, now) ==
    LET pt == decrypt_blob(old_key, row.nonce, row.ciphertext)
        stamped == [k \in 1..Len(pt[1]) |-> <<pt[1][k][1], pt[1][k][2], now>>]
        enc == encrypt_blob(new_key, stamped, nonce)
    IN IF pt = <<>> THEN <<>>
       ELSE <<[nonce |-> enc.nonce, ciphertext |-> enc.ct, updated_at |-> now]>>

\* set_master_password, "catalog": the same for the catalog row
ReencryptCatalog(row, old_key, new_key, nonce, now) ==
    LET pt == decrypt_blob(old_key, row.nonce, row.ciphertext)
        enc == encrypt_blob(new_key, pt[1], nonce)
    IN IF pt = <<>> THEN <<>>
       ELSE <<[nonce |-> enc.nonce, ciphertext |-> enc.ct, updated_at |-> now]>>

\* the header update with the new salt left out
RotateHeaderKeepSalt(h, salt) ==
    [h EXCEPT !.kdf_mem_kib = KdfMemKib, !.kdf_iters = KdfIters,
              !.kdf_parallelism = KdfParallelism]

\* set_master_password, "update header"
RotateHeader(h, salt) ==
    [h EXCEPT !.kdf_salt = salt, !.kdf_mem_kib = KdfMemKib,
              !.kdf_iters = KdfIters, !.kdf_parallelism = KdfParallelism]

\* the for loop of set_master_password over the rows SELECT returns, in the
\* order it returns them: the images of the transaction's working copy after
\* each UPDATE, up to the first row that fails to decrypt
RECURSIVE RotateItems(_, _, _, _, _, _)
RotateItems(w, order, old_key, new_key, now, r) ==
    IF order = <<>> THEN [writes |-> <<>>, ok |-> TRUE]
    ELSE LET id == Head(order)
             new == ReencryptItem(w.items[id], old_key, new_key, r, now)
             w1 == [w EXCEPT !.items[id] = new[1]]
             rest == RotateItems(w1, Tail(order), old_key, new_key, now, r + 1)
         IN IF new = <<>> THEN [writes |-> <<>>, ok |-> FALSE]
            ELSE [writes |-> <<w1>> \o rest.writes, ok |-> rest.ok]

\* set_master_password: order is the order in which SELECT returns the rows
set_master_password(d, old_pw, new_pw, order, now, r) ==
    LET old_key == derive_key_from_header(TheRow(d.header), old_pw)
        salt == r
        new_key == derive_key(new_pw, salt, KdfMemKib, KdfIters, KdfParallelism)
        its == RotateItems(d, order, old_key, new_key, now, r + 1)
        w1 == Final(d, its.writes)
        n == Len(its.writes)
        cat == ReencryptCatalog(TheRow(w1.catalog), old_key, new_key, r + 1 + n, now)
        w2 == [w1 EXCEPT !.catalog = {cat[1]}]
        w3 == [w2 EXCEPT !.header = {RotateHeader(TheRow(w2.header), salt)}]
    IN IF ~its.ok \/ cat = <<>>
       THEN [steps |-> InTransaction(d, its.writes, FALSE), res |-> "err_auth",
             used |-> 1 + n, draws |-> [k \in 1..n |-> 1 + k]]
       ELSE [steps |-> InTransaction(d, its.writes \o <<w2, w3>>, TRUE),
             res |-> "ok", used |-> 2 + n,
             draws |-> [k \in 1..(n + 3) |-> IF k <= n THEN 1 + k ELSE 2 + n]]

---------------------------------------------------------------------------
(* What an observer of the file sees *)

\* the entries the catalog blob holds
CatalogEntries(d) ==
    IF d.catalog = {} THEN <<>>
    ELSE from_json_catalog(TheRow(d.catalog).ciphertext.pt)

CatalogIds(d) == {CatalogEntries(d)[k].id : k \in 1..Len(CatalogEntries(d))}

RowIds(d) == DOMAIN d.items

\* every encrypted blob of the file: (nonce, ciphertext) pairs
Blobs(d) ==
    {[nonce |-> d.items[i].nonce, ciphertext |-> d.items[i].ciphertext] : i \in RowIds(d)}
        \cup {[nonce |-> c.nonce, ciphertext |-> c.ciphertext] : c \in d.catalog}

\* new_id: 16 random bytes; an id the vault does not hold
FreshIds(d) == Ids \ (RowIds(d) \cup CatalogIds(d))

\* the orders in which SELECT may return the rows of items
Orders(d) ==
    {o \in [1..Cardinality(RowIds(d)) -> RowIds(d)] :
        \A j, k \in 1..Cardinality(RowIds(d)) : j # k => o[j] # o[k]}

NoTyped == [title |-> <<>>, username |-> <<>>, password |-> <<>>, notes |-> <<>>]

\* last before any call.  now is the value now_unix() returned to the call
\* (0: the call did not read the clock), typed what the user typed at its
\* prompts, updates the number of UPDATE statements a set_master_password
\* had executed when it stopped, healed whether an edit found its id orphaned.
NoCall ==
    [op |-> "none", res |-> "ok", id |-> <<>>, now |-> 0, pw |-> "", new_pw |-> "",
     typed |-> NoTyped, updates |-> 0, healed |-> FALSE]

---------------------------------------------------------------------------
(* The state machine *)

\* the user's first call: Vault::open with "pw1" on a path that holds no file
Created == open(EmptyDb, "pw1", 1, 1)

\* and a first item added to that vault in the same session
FirstId == Id1

FirstTyped ==
    [title |-> <<"a">>, username |-> <<"u">>, password |-> <<"p">>, notes |-> <<"n">>]

FirstAdded ==
    add_item_interactive(Final(EmptyDb, Created.steps), Created.key, FirstTyped,
                         FirstId, 1, 1 + Created.used)

\* the first value getrandom yields after the initial state
FirstRand == 1 + Created.used + FirstAdded.used

\* The vault as Vault::open created it, with no item or with a first item.
Init ==
    /\ \/ /\ db = Final(EmptyDb, Created.steps)
          /\ last = [NoCall EXCEPT !.op = "open", !.pw = "pw1", !.now = 1]
       \/ /\ db = Final(EmptyDb, FirstAdded.steps)
          /\ last = [NoCall EXCEPT !.op = "add", !.id = FirstId, !.now = 1,
                                   !.typed = FirstTyped]
    /\ rng = FirstRand
    /\ session = <<Created.key>>
    /\ clean = TRUE
    /\ orphaned = {}

\* The handler ran c of its steps.  With c = Len(r.steps) it returned r.res;
\* with fewer the process stopped there (a crash), and the session is gone.
\* r.used is how many values the call drew from getrandom, r.draws[k] how
\* many it had drawn when its k-th step ran.
Finish(call, r, c, sess, right) ==
    LET crashed == c < Len(r.steps)
        d1 == Final(db, SubSeq(r.steps, 1, c))
        used == IF ~crashed THEN r.used ELSE IF c = 0 THEN 0 ELSE r.draws[c]
    IN /\ rng + used <= FirstRand + MaxRand
       /\ db' = d1
       /\ session' = IF crashed THEN <<>> ELSE sess
       /\ rng' = rng + used
       /\ last' = [call EXCEPT !.res = IF crashed THEN "crash" ELSE r.res]
       /\ clean' = (clean /\ ~crashed /\ right)
       /\ orphaned' =
            {i \in orphaned \cup
                    (IF crashed /\ call.op = "add" THEN {call.id} ELSE {}) :
                i \in RowIds(d1) /\ i \notin CatalogIds(d1)}

\* Vault::open(db_path, password), a new process.  The clock is read only
\* when the catalog row is created.
Open ==
    \E pw \in Passwords, now \in Times :
        /\ db.catalog # {} => now = 1
        /\ LET r == open(db, pw, now, rng)
               right == db.catalog = {}
                          \/ TheRow(db.catalog).ciphertext.k = r.key
           IN \E c \in 0..Len(r.steps) :
                Finish([NoCall EXCEPT !.op = "open", !.pw = pw,
                                      !.now = IF db.catalog = {} THEN now ELSE 0],
                       r, c, <<r.key>>, right)

\* add_item_interactive(v)
Add ==
    \E id \in FreshIds(db), now \in Times,
       title \in AddTitles, username \in AddUsernames,
       password \in AddPasswords, notes \in AddNotes :
        /\ session # <<>>
        /\ LET typed == [title |-> title, username |-> username,
                         password |-> password, notes |-> notes]
               r == add_item_interactive(db, session[1], typed, id, now, rng)
           IN \E c \in 0..Len(r.steps) :
                Finish([NoCall EXCEPT !.op = "add", !.id = id, !.now = now,
                                      !.typed = typed],
                       r, c, session, TRUE)

\* edit_item(v, id) when load_item fails: nothing is prompted for
EditNotLoaded ==
    \E id \in Ids :
        /\ session # <<>>
        /\ load_item(db, session[1], id).res # "ok"
        /\ LET r == edit_item(db, session[1], id, NoTyped, 0, rng)
           IN Finish([NoCall EXCEPT !.op = "edit", !.id = id], r, 0, session, TRUE)

\* edit_item(v, id) when load_item succeeds
Edit ==
    \E id \in Ids, now \in Times,
       title \in EditTitles, username \in EditUsernames,
       password \in EditPasswords, notes \in EditNotes :
        /\ session # <<>>
        /\ load_item(db, session[1], id).res = "ok"
        /\ LET typed == [title |-> title, username |-> username,
                         password |-> password, notes |-> notes]
               r == edit_item(db, session[1], id, typed, now, rng)
           IN \E c \in 0..Len(r.steps) :
                Finish([NoCall EXCEPT !.op = "edit", !.id = id, !.now = now,
                                      !.typed = typed,
                                      !.healed = id \in orphaned],
                       r, c, session, TRUE)

\* delete_item(v, id).  The clock is read only by save_catalog.
Delete ==
    \E id \in Ids, now \in Times :
        /\ session # <<>>
        /\ LET r == delete_item(db, session[1], id, now, rng)
               saved == r.res = "ok"
           IN /\ ~saved => now = 1
              /\ \E c \in 0..Len(r.steps) :
                   Finish([NoCall EXCEPT !.op = "delete", !.id = id,
                                         !.now = IF saved /\ c >= 3 THEN now ELSE 0],
                          r, c, session, TRUE)

\* set_master_password(v, old_pw, new_pw)
Rotate ==
    \E old_pw \in Passwords, new_pw \in Passwords, now \in Times,
       order \in Orders(db) :
        /\ session # <<>>
        /\ LET r == set_master_password(db, old_pw, new_pw, order, now, rng)
           IN \E c \in 0..Len(r.steps) :
                Finish([NoCall EXCEPT !.op = "rotate", !.pw = old_pw,
                                      !.new_pw = new_pw,
                                      !.updates = IF c < Len(r.steps) THEN c
                                                  ELSE Len(r.steps) - (IF r.res = "ok" THEN 1 ELSE 0)],
                       r, c, session, TRUE)

Next == Open \/ Add \/ EditNotLoaded \/ Edit \/ Delete \/ Rotate

Spec == Init /\ [][Next]_vars

(* What the properties below read off the file *)

\* the key a password gives with the salt and parameters the header of d holds
KeyFor(d, pw) == derive_key_from_header(TheRow(d.header), pw)

\* blob b authenticates under key: AES-GCM accepts it
Authenticates(key, b) == b.ciphertext.k = key /\ b.ciphertext.n = b.nonce

\* the plaintext fields sealed in a row of items
PlainOf(row) ==
    [title |-> row.ciphertext.pt[1], username |-> row.ciphertext.pt[2],
     password |-> row.ciphertext.pt[3], notes |-> row.ciphertext.pt[4]]

\* the catalog entries of d that are not for id, in order
OtherEntries(d, id) == SelectSeq(CatalogEntries(d), LAMBDA e : e.id # id)

\* the catalog entries of d for id, in order
EntriesFor(d, id) == SelectSeq(CatalogEntries(d), LAMBDA e : e.id = id)

\* every row of items other than id is the same in d1 and d2
OtherRowsSame(d1, d2, id) ==
    /\ RowIds(d1) \ {id} = RowIds(d2) \ {id}
    /\ \A i \in RowIds(d1) \ {id} : d1.items[i] = d2.items[i]

(* Master-password rotation *)

\* C1: set_master_password with an old password that is not the vault's (some
\* blob does not authenticate under the key it gives) returns an
\* authentication error and leaves the header, every items row and the
\* catalog row as they were, whatever the number of items.
C1_WrongOldPasswordChangesNothing ==
    [][(/\ last'.op = "rotate"
        /\ last'.res # "crash"
        /\ \E b \in Blobs(db) : ~Authenticates(KeyFor(db, last'.pw), b))
       => (last'.res = "err_auth" /\ db' = db)]_vars

\* a rotation was refused for a vault that holds an item and none of whose
\* blobs is under the old password given
C1_Witness ==
    /\ last.op = "rotate"
    /\ last.res = "err_auth"
    /\ RowIds(db) # {}
    /\ \A b \in Blobs(db) : ~Authenticates(KeyFor(db, last.pw), b)

\* C2: when set_master_password succeeds, every items blob and the catalog
\* blob authenticate under the key of the new password with the salt and
\* parameters the header now holds, and none under the old key.
C2_RotationReencryptsEverything ==
    [][(last'.op = "rotate" /\ last'.res = "ok")
       => /\ Blobs(db') # {}
          /\ RowIds(db') = RowIds(db)
          /\ \A b \in Blobs(db') :
                /\ Authenticates(KeyFor(db', last'.new_pw), b)
                /\ ~Authenticates(KeyFor(db, last'.pw), b)]_vars

\* a rotation succeeded on a vault that holds an item
C2_Witness ==
    /\ last.op = "rotate"
    /\ last.res = "ok"
    /\ RowIds(db) # {}
    /\ last.updates = Cardinality(RowIds(db)) + 2

\* C3: a set_master_password that stops at any point (a blob that fails to
\* decrypt, or the process ending before COMMIT) leaves the file exactly as
\* it was; one that commits leaves all of it under the new key.  No file
\* holds some blobs under the new key and others, or the header, under the old.
C3_RotationAllOrNothing ==
    [][last'.op = "rotate"
       => \/ last'.res # "ok" /\ db' = db
          \/ /\ last'.res = "ok"
             /\ TheRow(db'.header).kdf_salt # TheRow(db.header).kdf_salt
             /\ \A b \in Blobs(db') :
                    Authenticates(KeyFor(db', last'.new_pw), b)]_vars

\* a rotation failed on a decryption after it had re-encrypted a row
C3_Witness ==
    /\ last.op = "rotate"
    /\ last.res = "err_auth"
    /\ last.updates >= 1

(* Item operations *)

\* C4: after a successful add_item_interactive the items row of the new id
\* exists and the catalog holds exactly one entry with that id, whose title
\* is the item's title and whose updated_at is the row's; every other row
\* and every other catalog entry is as before.
C4_AddWritesRowAndOneEntry ==
    [][(last'.op = "add" /\ last'.res = "ok")
       => LET id == last'.id
              es == EntriesFor(db', id)
          IN /\ id \notin RowIds(db)
             /\ id \in RowIds(db')
             /\ PlainOf(db'.items[id]).title = Trim(last'.typed.title)
             /\ Len(es) = 1
             /\ es[1].title = PlainOf(db'.items[id]).title
             /\ es[1].updated_at = db'.items[id].updated_at
             /\ db'.items[id].updated_at = last'.now
             /\ OtherRowsSame(db, db', id)
             /\ OtherEntries(db', id) = CatalogEntries(db)
             /\ db'.header = db.header]_vars

\* an item was added to a vault that already held another
C4_Witness ==
    /\ last.op = "add"
    /\ last.res = "ok"
    /\ Cardinality(RowIds(db)) = 2
    /\ Len(CatalogEntries(db)) = 2

\* C6: a successful edit_item changes exactly the fields it was given: title,
\* username and notes change only for a non-empty trimmed input, the password
\* only for a non-empty input; id and created_at stay, updated_at becomes the
\* time of the edit, the catalog entry of the id carries the new title and
\* that updated_at, and no other row or entry changes.
C6_EditAppliesSuppliedChanges ==
    [][(last'.op = "edit" /\ last'.res = "ok")
       => LET id == last'.id
              t == last'.typed
              old == PlainOf(db.items[id])
              new == PlainOf(db'.items[id])
              es == EntriesFor(db', id)
          IN /\ id \in RowIds(db) /\ id \in RowIds(db')
             /\ new.title = (IF Trim(t.title) = <<>> THEN old.title ELSE Trim(t.title))
             /\ new.username =
                    (IF Trim(t.username) = <<>> THEN old.username ELSE Trim(t.username))
             /\ new.notes = (IF Trim(t.notes) = <<>> THEN old.notes ELSE Trim(t.notes))
             /\ new.password = (IF t.password = <<>> THEN old.password ELSE t.password)
             /\ db'.items[id].created_at = db.items[id].created_at
             /\ db'.items[id].updated_at = last'.now
             /\ Len(es) >= 1
             /\ \A k \in 1..Len(es) :
                    es[k].title = new.title /\ es[k].updated_at = last'.now
             /\ OtherRowsSame(db, db', id)
             /\ OtherEntries(db', id) = OtherEntries(db, id)
             /\ db'.header = db.header]_vars

\* an edit gave a new username, kept the title and the password by empty
\* input, at a time later than the item's creation
C6_Witness ==
    /\ last.op = "edit"
    /\ last.res = "ok"
    /\ Trim(last.typed.title) = <<>>
    /\ last.typed.password = <<>>
    /\ PlainOf(db.items[last.id]).password # <<>>
    /\ PlainOf(db.items[last.id]).username = Trim(last.typed.username)
    /\ db.items[last.id].created_at < db.items[last.id].updated_at

\* C5: after delete_item(id) returns without error, no items row and no
\* catalog entry with that id remains, also when the row was already absent
\* and the call reported that no item was found.
C5_DeleteRemovesRowAndEntry ==
    (last.op = "delete" /\ last.res \in {"ok", "ok_notfound"})
        => (last.id \notin RowIds(db) /\ last.id \notin CatalogIds(db))

(* Items and catalog together *)

\* C7: in a vault that was created and then only ever opened with the
\* password its catalog is under, and in which no call was cut short by a
\* crash, the ids of the items rows are the ids of the catalog entries.
C7_CatalogMatchesItems ==
    clean => RowIds(db) = CatalogIds(db)

\* C8: an add, edit or delete that returns an error has changed neither the
\* items table nor the catalog row.
C8_ErrorLeavesBothUnchanged ==
    [][(/\ last'.op \in {"add", "edit", "delete"}
        /\ last'.res \in {"err_auth", "err_conflict", "err_notfound", "err_decode"})
       => (db'.items = db.items /\ db'.catalog = db.catalog)]_vars

\* C9: at every moment one password gives, with the header's salt and
\* parameters, a key under which every items blob and the catalog blob
\* authenticate.
C9_OneKeyForAllBlobs ==
    \E pw \in Passwords :
        \A b \in Blobs(db) : Authenticates(KeyFor(db, pw), b)

\* C10: an add_item_interactive that stops after its row commit and before
\* its catalog save leaves the row with no catalog entry and the catalog row
\* untouched; the next successful edit_item of that id appends exactly one
\* entry for it, with the edited title and the time of the edit, and keeps
\* every other entry.
C10_EditHealsOrphanedRow ==
    [][/\ (last'.op = "add" /\ last'.res = "crash" /\ last'.id \in RowIds(db'))
            => /\ last'.id \notin CatalogIds(db')
               /\ db'.catalog = db.catalog
               /\ OtherRowsSame(db, db', last'.id)
       /\ (last'.op = "edit" /\ last'.res = "ok" /\ last'.id \in orphaned)
            => /\ last'.id \notin CatalogIds(db)
               /\ CatalogEntries(db') =
                    Append(CatalogEntries(db),
                           [id |-> last'.id,
                            title |-> PlainOf(db'.items[last'.id]).title,
                            updated_at |-> last'.now])
               /\ last'.id \notin orphaned']_vars

\* an edit succeeded on an id whose add had stopped between its two commits
C10_Witness ==
    /\ last.op = "edit"
    /\ last.res = "ok"
    /\ last.healed
    /\ Len(EntriesFor(db, last.id)) = 1

---------------------------------------------------------------------------
(* Strings: a str is the sequence of its chars *)

\* the code point of a char; the order of UTF-8 byte strings is the order
\* of their code point sequences
CharCode(c) ==
    CASE c = " " -> 32
      [] c = "0" -> 48
      [] c = "1" -> 49
      [] c = "2" -> 50
      [] c = "A" -> 65
      [] c = "B" -> 66
      [] c = "N" -> 78
      [] c = "U" -> 85
      [] c = "a" -> 97
      [] c = "b" -> 98
      [] c = "c" -> 99
      [] c = "d" -> 100
      [] c = "n" -> 110
      [] c = "p" -> 112
      [] c = "q" -> 113
      [] c = "u" -> 117
      [] c = "v" -> 118
      [] c = "é" -> 233

\* the number of bytes of a char in UTF-8
Utf8Len(c) == IF CharCode(c) < 128 THEN 1 ELSE 2

\* str::len: the length in bytes
RECURSIVE StrByteLen(_)
StrByteLen(s) == IF s = <<>> THEN 0 ELSE Utf8Len(Head(s)) + StrByteLen(Tail(s))

\* char::to_lowercase
LowerChar(c) ==
    CASE c = "A" -> "a"
      [] c = "B" -> "b"
      [] c = "N" -> "n"
      [] c = "U" -> "u"
      [] OTHER -> c

\* str::to_lowercase
to_lowercase(s) == [k \in 1..Len(s) |-> LowerChar(s[k])]

\* the digits '1'..='9' only
is_ascii_digit_nonzero(c) == CharCode(c) >= 49 /\ CharCode(c) <= 57

\* char::is_ascii_digit
is_ascii_digit(c) == CharCode(c) >= 48 /\ CharCode(c) <= 57

\* str::starts_with
starts_with(s, prefix) ==
    Len(prefix) <= Len(s) /\ SubSeq(s, 1, Len(prefix)) = prefix

\* str::contains: the empty needle is contained in every string
contains(s, needle) ==
    \E k \in 0..Len(s) :
        k + Len(needle) <= Len(s) /\ SubSeq(s, k + 1, k + Len(needle)) = needle

\* Ord for str: lexicographic; -1 less, 0 equal, 1 greater
RECURSIVE cmp(_, _)
cmp(a, b) ==
    IF a = <<>> /\ b = <<>> THEN 0
    ELSE IF a = <<>> THEN -1
    ELSE IF b = <<>> THEN 1
    ELSE IF CharCode(Head(a)) < CharCode(Head(b)) THEN -1
    ELSE IF CharCode(Head(a)) > CharCode(Head(b)) THEN 1
    ELSE cmp(Tail(a), Tail(b))

\* the value of a string of ASCII digits
RECURSIVE DecimalValue(_)
DecimalValue(s) ==
    IF s = <<>> THEN 0
    ELSE 10 * DecimalValue(SubSeq(s, 1, Len(s) - 1)) + (CharCode(s[Len(s)]) - 48)

\* str::parse::<usize>() of a string of ASCII digits, then unwrap_or(0):
\* the empty string does not parse.  (A value above usize::MAX does not
\* either; it has 20 digits or more.)
parse_or_zero(s) == IF s = <<>> THEN 0 ELSE DecimalValue(s)

\* slice::sort_by and sort_by_key are stable: an element stands behind
\* those it is greater than and behind the equal ones stored before it
\* (greater[i][j]: the comparator puts s[i] after s[j])
StableSort(s, greater) ==
    LET before(i) == {j \in 1..Len(s) :
                        \/ greater[i][j]
                        \/ ~greater[j][i] /\ j < i}
    IN [k \in 1..Len(s) |->
            s[CHOOSE i \in 1..Len(s) : Cardinality(before(i)) = k - 1]]

---------------------------------------------------------------------------
(* catalog.rs: the sorted view and the selectors *)

\* a is after b when compared by title alone, as stored
TitleIdGreaterCaseSensitive(a, b) ==
    \/ cmp(a.title, b.title) = 1
    \/ cmp(a.title, b.title) = 0 /\ cmp(a.id, b.id) = 1

\* the comparator of load_catalog_sorted: lower-cased title, then id
TitleIdGreater(a, b) ==
    \/ cmp(to_lowercase(a.title), to_lowercase(b.title)) = 1
    \/ /\ cmp(to_lowercase(a.title), to_lowercase(b.title)) = 0
       /\ cmp(a.id, b.id) = 1

\* entries.sort_by(..) of load_catalog_sorted
SortByTitleId(entries) ==
    StableSort(entries, [i \in DOMAIN entries |-> [j \in DOMAIN entries |->
                            TitleIdGreater(entries[i], entries[j])]])

\* a view that lists one entry per row of items instead of the catalog's
load_catalog_sorted_from_rows(d, key) ==
    LET cat == load_catalog(d, key)
        ids == CHOOSE q \in [1..Cardinality(DOMAIN d.items) -> DOMAIN d.items] :
                   \A j, k \in DOMAIN q : j # k => q[j] # q[k]
        rows == [k \in DOMAIN ids |->
                    [id |-> ids[k], title |-> <<>>,
                     updated_at |-> d.items[ids[k]].updated_at]]
    IN [ok |-> cat.ok, entries |-> SortByTitleId(rows)]

\* load_catalog_sorted: [ok, entries]
load_catalog_sorted(d, key) ==
    LET cat == load_catalog(d, key)
    IN [ok |-> cat.ok, entries |-> SortByTitleId(cat.entries)]

\* resolve_selector_to_id: [res, id]
resolve_selector_to_id(d, key, sel) ==
    LET cat == load_catalog_sorted(d, key)
        entries == cat.entries
        idx == parse_or_zero(sel)
        prefix == to_lowercase(Trim(sel))
        matches == SelectSeq(entries, LAMBDA e : starts_with(e.id, prefix))
    IN IF ~cat.ok THEN [res |-> "err_auth", id |-> <<>>]
       ELSE IF entries = <<>> THEN [res |-> "err_empty", id |-> <<>>]
       ELSE IF \A k \in 1..Len(sel) : is_ascii_digit(sel[k])
       THEN IF idx = 0 \/ idx > Len(entries)
            THEN [res |-> "err_index_out_of_range", id |-> <<>>]
            ELSE [res |-> "ok", id |-> entries[idx].id]
       ELSE IF StrByteLen(prefix) < 4
       THEN [res |-> "err_prefix_too_short", id |-> <<>>]
       ELSE IF matches = <<>> THEN [res |-> "err_no_match", id |-> <<>>]
       ELSE IF Len(matches) > 1 THEN [res |-> "err_ambiguous", id |-> <<>>]
       ELSE [res |-> "ok", id |-> matches[1].id]

---------------------------------------------------------------------------
(* catalog.rs: search *)

\* oldest first
UpdatedAscending(a, b) == a.updated_at > b.updated_at

\* the order of sort_by_key(|e| Reverse(e.updated_at)): a stands behind b
\* when it is older
UpdatedDescending(a, b) == a.updated_at < b.updated_at

\* a deep search that decrypts the item of every entry
needs_item_always(hit_title, deep) == deep

\* if !hit_title && deep
needs_item(hit_title, deep) == ~hit_title /\ deep

\* a loop that never breaks at the limit
limit_reached_never(limit, results) == FALSE

\* if limit > 0 && results.len() >= limit { break }
limit_reached(limit, results) == limit > 0 /\ Len(results) >= limit

\* the for loop of search over the entries left, with acc what it has so far:
\* results as pushed, decrypted the ids load_item was called with, scanned
\* the number of entries visited
RECURSIVE search_loop(_, _, _, _, _, _, _)
search_loop(d, key, needle, limit, deep, entries, acc) ==
    IF entries = <<>> THEN acc
    ELSE LET e == Head(entries)
             hit_title == contains(to_lowercase(e.title), needle)
             load == needs_item(hit_title, deep)
             it == load_item(d, key, e.id)
             hit_user == load /\ it.res = "ok"
                            /\ contains(to_lowercase(it.item[1].username), needle)
             hit_notes == load /\ it.res = "ok"
                            /\ contains(to_lowercase(it.item[1].notes), needle)
             hit == hit_title \/ hit_user \/ hit_notes
             acc1 == [res |-> "ok",
                      results |-> IF hit
                                  THEN Append(acc.results,
                                              [id |-> e.id, title |-> e.title,
                                               updated_at |-> e.updated_at,
                                               hit_title |-> hit_title,
                                               hit_user |-> hit_user,
                                               hit_notes |-> hit_notes])
                                  ELSE acc.results,
                      decrypted |-> IF load THEN Append(acc.decrypted, e.id)
                                    ELSE acc.decrypted,
                      scanned |-> acc.scanned + 1]
         IN IF load /\ it.res # "ok"
            THEN [acc1 EXCEPT !.res = it.res, !.results = <<>>]
            ELSE IF hit /\ limit_reached(limit, acc1.results) THEN acc1
            ELSE search_loop(d, key, needle, limit, deep, Tail(entries), acc1)

\* entries.sort_by_key(|e| Reverse(e.updated_at)) of search
SortByUpdatedDesc(entries) ==
    StableSort(entries, [i \in DOMAIN entries |-> [j \in DOMAIN entries |->
                            UpdatedDescending(entries[i], entries[j])]])

\* search: [res, results, decrypted, scanned]
search(d, key, query, limit, deep) ==
    LET needle == to_lowercase(query)
        cat == load_catalog(d, key)
        entries == SortByUpdatedDesc(cat.entries)
        none == [res |-> "ok", results |-> <<>>, decrypted |-> <<>>, scanned |-> 0]
    IN IF ~cat.ok THEN [none EXCEPT !.res = "err_auth"]
       ELSE search_loop(d, key, needle, limit, deep, entries, none)

---------------------------------------------------------------------------
(* The read-only commands, each run on a vault that adds have filled *)

\* how many items the vault holds at most
MaxEntries == 3

\* how long a selector is at most, in chars
MaxSelLen == 4

\* how long a search query is at most, in chars
MaxQueryLen == 2

\* the largest --limit
MaxLimit == 2

\* ids as new_id yields them, lower-case hex, cut to five chars: two that
\* share their first four chars, one of its own, one that starts with digits
IdA1 == <<"a", "a", "a", "a", "0">>
IdA2 == <<"a", "a", "a", "a", "2">>
IdB == <<"a", "0", "a", "0", "a">>
IdD == <<"2", "0", "2", "0", "a">>

\* the items a user adds: what is typed at the prompts of add_item_interactive
\* and the time of the add
ViewItems ==
    { [id |-> IdA1, title |-> <<"a", "b">>, username |-> <<"u">>,
       notes |-> <<"n">>, password |-> <<"p">>, at |-> 1],
      [id |-> IdA2, title |-> <<"A", "b">>, username |-> <<"U">>,
       notes |-> <<"b">>, password |-> <<"p">>, at |-> 2],
      [id |-> IdB, title |-> <<"B">>, username |-> <<"a">>,
       notes |-> <<"N">>, password |-> <<"q">>, at |-> 2],
      [id |-> IdD, title |-> <<"b">>, username |-> <<"n">>,
       notes |-> <<"u">>, password |-> <<"p">>, at |-> 1] }

\* the orders in which the user may have added up to MaxEntries of them
ViewAdds ==
    {s \in UNION {[1..n -> ViewItems] : n \in 0..MaxEntries} :
        \A j, k \in 1..Len(s) : j # k => s[j] # s[k]}

\* the vault after Vault::open created it and the adds of s ran in one session
RECURSIVE VaultWith(_)
VaultWith(s) ==
    IF s = <<>> THEN Final(EmptyDb, Created.steps)
    ELSE LET d == VaultWith(SubSeq(s, 1, Len(s) - 1))
             e == s[Len(s)]
             typed == [title |-> e.title, username |-> e.username,
                       password |-> e.password, notes |-> e.notes]
             r == add_item_interactive(d, Created.key, typed, e.id, e.at,
                                       1 + Created.used + 2 * (Len(s) - 1))
         IN Final(d, r.steps)

\* the chars a selector is typed from
SelChars == {"a", "A", "0", "2", " ", "é"}

Selectors == UNION {[1..n -> SelChars] : n \in 0..MaxSelLen}

\* the chars a query is typed from: chars of titles, usernames and notes, and
\* "p", which only passwords hold
QueryChars == {"a", "B", "u", "n", "p"}

Queries == UNION {[1..n -> QueryChars] : n \in 0..MaxQueryLen}

Limits == 0..MaxLimit

InitView ==
    /\ \E s \in ViewAdds :
          /\ db = VaultWith(s)
          /\ rng = 1 + Created.used + 2 * Len(s)
    /\ session = <<Created.key>>
    /\ last = NoCall
    /\ clean = TRUE
    /\ orphaned = {}

\* list_items: the rows it prints are the sorted view
List ==
    /\ last = NoCall
    /\ LET r == load_catalog_sorted(db, session[1])
       IN last' = [op |-> "list", res |-> IF r.ok THEN "ok" ELSE "err_auth",
                   entries |-> r.entries]
    /\ UNCHANGED <<db, session, rng, clean, orphaned>>

\* resolve_selector_to_id(v, sel)
Resolve ==
    /\ last = NoCall
    /\ \E sel \in Selectors :
          LET r == resolve_selector_to_id(db, session[1], sel)
          IN last' = [op |-> "resolve", sel |-> sel, res |-> r.res, id |-> r.id]
    /\ UNCHANGED <<db, session, rng, clean, orphaned>>

\* search(v, query, limit, deep)
Search ==
    /\ last = NoCall
    /\ \E query \in Queries, limit \in Limits, deep \in BOOLEAN :
          LET r == search(db, session[1], query, limit, deep)
          IN last' = [op |-> "search", query |-> query, limit |-> limit,
                      deep |-> deep, res |-> r.res, results |-> r.results,
                      decrypted |-> r.decrypted, scanned |-> r.scanned]
    /\ UNCHANGED <<db, session, rng, clean, orphaned>>

\* one command per process, as the command line runs them
NextView == List \/ Resolve \/ Search

SpecView == InitView /\ [][NextView]_vars

---------------------------------------------------------------------------
(* Selectors and the sorted view *)

\* a selector of decimal digits only
DigitSelector(sel) ==
    \A k \in 1..Len(sel) :
        sel[k] \in {"0", "1", "2", "3", "4", "5", "6", "7", "8", "9"}

\* the sorted view of the vault, as the session sees it
SortedView == load_catalog_sorted(db, session[1]).entries

\* C11, as stated: an all-digit selector is a 1-based index into the sorted
\* view; in range it gives the id at that position, otherwise (index 0, an
\* empty catalog) the index-out-of-range error.
C11_DigitSelectorIsIndex ==
    (last.op = "resolve" /\ DigitSelector(last.sel))
        => IF 1 <= DecimalValue(last.sel) /\ DecimalValue(last.sel) <= Len(SortedView)
           THEN last.res = "ok" /\ last.id = SortedView[DecimalValue(last.sel)].id
           ELSE last.res = "err_index_out_of_range"

\* C11, amended: on an empty catalog resolve_selector_to_id fails with its
\* catalog-is-empty error before it looks at the selector; on a catalog with
\* entries an all-digit selector is a 1-based index into the sorted view,
\* giving the id at that position when in range and the index-out-of-range
\* error otherwise, index 0 and the empty selector included, and is never
\* matched against the ids as a prefix.
C11_DigitSelectorIsIndexUnlessEmpty ==
    (last.op = "resolve" /\ DigitSelector(last.sel))
        => IF SortedView = <<>> THEN last.res = "err_empty"
           ELSE IF 1 <= DecimalValue(last.sel)
                    /\ DecimalValue(last.sel) <= Len(SortedView)
           THEN last.res = "ok" /\ last.id = SortedView[DecimalValue(last.sel)].id
           ELSE last.res = "err_index_out_of_range"

\* a selector with a leading zero picked the second entry of the sorted view
\* of a vault that stores its three entries in another order
C11_Witness ==
    /\ last.op = "resolve"
    /\ last.sel = <<"0", "2">>
    /\ last.res = "ok"
    /\ Len(SortedView) = 3
    /\ last.id = SortedView[2].id
    /\ last.id # CatalogEntries(db)[2].id

\* C12: a selector that is not all digits is lower-cased and taken as an id
\* prefix: PrefixTooShort when it has fewer than 4 characters, else NoMatch
\* when no catalog id starts with it, AmbiguousPrefix when two or more do,
\* and the id when exactly one does.
C12_PrefixSelectorOutcomes ==
    (last.op = "resolve" /\ ~DigitSelector(last.sel))
        => LET prefix == to_lowercase(last.sel)
               ids == {i \in CatalogIds(db) : starts_with(i, prefix)}
           IN IF Len(prefix) < 4 THEN last.res = "err_prefix_too_short"
              ELSE IF ids = {} THEN last.res = "err_no_match"
              ELSE IF Cardinality(ids) >= 2 THEN last.res = "err_ambiguous"
              ELSE last.res = "ok" /\ ids = {last.id}

\* e is before f in the order of the sorted view
BeforeInView(e, f) ==
    \/ cmp(to_lowercase(e.title), to_lowercase(f.title)) = -1
    \/ /\ to_lowercase(e.title) = to_lowercase(f.title)
       /\ cmp(e.id, f.id) = -1

\* the entries of a sequence, as a set
EntrySet(entries) == {entries[k] : k \in 1..Len(entries)}

\* C13: load_catalog_sorted returns a permutation of the stored entries in
\* ascending order of lower-cased title, ties broken by ascending id, and
\* returns the same sequence for every order in which the same entries may
\* be stored.
C13_SortedViewOrder ==
    last.op = "list"
        => /\ last.res = "ok"
           /\ Len(last.entries) = Len(CatalogEntries(db))
           /\ EntrySet(last.entries) = EntrySet(CatalogEntries(db))
           /\ \A k \in 1..(Len(last.entries) - 1) :
                  BeforeInView(last.entries[k], last.entries[k + 1])
           /\ \A s \in ViewAdds :
                  EntrySet(CatalogEntries(VaultWith(s))) = EntrySet(CatalogEntries(db))
                      => load_catalog_sorted(VaultWith(s), session[1]).entries
                            = last.entries

\* three entries, stored in another order than listed, two of them with
\* titles that differ only in case
C13_Witness ==
    /\ last.op = "list"
    /\ Len(last.entries) = 3
    /\ last.entries # CatalogEntries(db)
    /\ \E k \in 1..2 :
          /\ last.entries[k].title # last.entries[k + 1].title
          /\ to_lowercase(last.entries[k].title)
                = to_lowercase(last.entries[k + 1].title)

---------------------------------------------------------------------------
(* Search *)

\* the title of catalog entry e contains the query of the last call
TitleHit(e) == contains(to_lowercase(e.title), to_lowercase(last.query))

\* the username, the notes of the item of e contain it
UserHit(e) ==
    contains(to_lowercase(PlainOf(db.items[e.id]).username), to_lowercase(last.query))

NotesHit(e) ==
    contains(to_lowercase(PlainOf(db.items[e.id]).notes), to_lowercase(last.query))

\* the entry a result of search was pushed for
EntryOf(result) ==
    [id |-> result.id, title |-> result.title, updated_at |-> result.updated_at]

\* C14: a search that is not deep returns exactly the catalog entries whose
\* lower-cased title contains the lower-cased query, most recently updated
\* first, cut to the first `limit` of them when limit > 0 and all of them
\* when limit = 0, and decrypts no item.
C14_ShallowSearch ==
    (last.op = "search" /\ ~last.deep)
        => LET matching == {e \in EntrySet(CatalogEntries(db)) : TitleHit(e)}
               hits == {EntryOf(last.results[k]) : k \in 1..Len(last.results)}
           IN /\ last.res = "ok"
              /\ last.decrypted = <<>>
              /\ hits \subseteq matching
              /\ Cardinality(hits) = Len(last.results)
              /\ Len(last.results) =
                    (IF last.limit > 0 /\ last.limit < Cardinality(matching)
                     THEN last.limit ELSE Cardinality(matching))
              /\ \A k \in 1..(Len(last.results) - 1) :
                    last.results[k].updated_at >= last.results[k + 1].updated_at
              /\ \A e \in matching \ hits : \A h \in hits :
                    h.updated_at >= e.updated_at
              /\ \A k \in 1..Len(last.results) :
                    /\ last.results[k].hit_title
                    /\ ~last.results[k].hit_user /\ ~last.results[k].hit_notes

\* an upper-case query matched three titles and the two most recently
\* updated of them were returned, the newer first
C14_Witness ==
    /\ last.op = "search"
    /\ ~last.deep
    /\ last.query = <<"B">>
    /\ last.limit = 2
    /\ Len(last.results) = 2
    /\ last.results[1].updated_at > last.results[2].updated_at
    /\ Cardinality({e \in EntrySet(CatalogEntries(db)) : TitleHit(e)}) = 3

\* C15: a deep search that returns scans the entries most recently updated
\* first, decrypts the item of exactly the scanned entries whose title does
\* not match, takes an entry as a hit when title, username or notes contain
\* the query, records with each hit the fields that matched, and stops at
\* the limit-th hit when limit > 0: no entry behind it is decrypted.
C15_DeepSearch ==
    (last.op = "search" /\ last.deep /\ last.res = "ok")
        => LET order == SortByUpdatedDesc(CatalogEntries(db))
               IsHit(e) == TitleHit(e) \/ UserHit(e) \/ NotesHit(e)
               HitsIn(n) == SelectSeq(SubSeq(order, 1, n), IsHit)
               scanned == SubSeq(order, 1, last.scanned)
               unmatched == SelectSeq(scanned, LAMBDA e : ~TitleHit(e))
           IN /\ last.scanned <= Len(order)
              /\ IF last.limit > 0 /\ Len(HitsIn(Len(order))) >= last.limit
                 THEN /\ Len(HitsIn(last.scanned)) = last.limit
                      /\ IsHit(order[last.scanned])
                 ELSE last.scanned = Len(order)
              /\ last.results =
                    [k \in 1..Len(HitsIn(last.scanned)) |->
                        LET e == HitsIn(last.scanned)[k]
                        IN [id |-> e.id, title |-> e.title,
                            updated_at |-> e.updated_at,
                            hit_title |-> TitleHit(e),
                            hit_user |-> ~TitleHit(e) /\ UserHit(e),
                            hit_notes |-> ~TitleHit(e) /\ NotesHit(e)]]
              /\ last.decrypted = [k \in 1..Len(unmatched) |-> unmatched[k].id]

\* a deep search stopped at its second hit, one by title and one by a field
\* of a decrypted item, with an entry left unscanned
C15_Witness ==
    /\ last.op = "search"
    /\ last.deep
    /\ last.res = "ok"
    /\ last.limit = 2
    /\ Len(last.results) = 2
    /\ last.scanned < Len(CatalogEntries(db))
    /\ last.decrypted # <<>>
    /\ \E k \in 1..2 : last.results[k].hit_title
    /\ \E k \in 1..2 : last.results[k].hit_user \/ last.results[k].hit_notes

---------------------------------------------------------------------------
(* util.rs: gen_password *)

\* the longest password asked for
MaxPwLen == 4

\* the pools of gen_password
UPPERS == <<"A", "B", "C", "D", "E", "F", "G", "H", "J", "K", "L", "M",
            "N", "P", "Q", "R", "S", "T", "U", "V", "W", "X", "Y", "Z">>
LOWERS == <<"a", "b", "c", "d", "e", "f", "g", "h", "i", "j", "k", "m", "n",
            "o", "p", "q", "r", "s", "t", "u", "v", "w", "x", "y", "z">>
DIGITS == <<"2", "3", "4", "5", "6", "7", "8", "9">>
SPECIALS == <<"!", "@", "#", "$", "%", "^", "&", "*", "(", ")", "[", "]",
              "{", "}", "-", "_", "=", "+", ":", ";", ",", ".", "?", "/">>

\* the enabled buckets, in the order they are pushed
Buckets(g) ==
    (IF g.no_upper THEN <<>> ELSE <<UPPERS>>)
        \o (IF g.no_lower THEN <<>> ELSE <<LOWERS>>)
        \o (IF g.no_digits THEN <<>> ELSE <<DIGITS>>)
        \o (IF g.no_specials THEN <<>> ELSE <<SPECIALS>>)

\* the union alphabet
Union(g) ==
    (IF g.no_upper THEN <<>> ELSE UPPERS)
        \o (IF g.no_lower THEN <<>> ELSE LOWERS)
        \o (IF g.no_digits THEN <<>> ELSE DIGITS)
        \o (IF g.no_specials THEN <<>> ELSE SPECIALS)

\* rand_index(n) returns an index of 0..n-1; of these the first two and the
\* last are followed
RandIndexes(n) == {j \in 0..(n - 1) : j \in {0, 1, n - 1}}

\* pick_one: alphabet[rand_index(alphabet.len())], j the index drawn
pick_one(alphabet, j) == alphabet[j + 1]

\* a length check that also refuses a length equal to the number of buckets
too_short_or_equal(len, buckets) == len <= Len(buckets)

\* if len < buckets.len()
too_short(len, buckets) == len < Len(buckets)

\* a swap that only copies out[j] over out[i]
swap_copy(out, i, j) == [out EXCEPT ![i + 1] = out[j + 1]]

\* out.swap(i, j), indexes from 0
swap(out, i, j) == [out EXCEPT ![i + 1] = out[j + 1], ![j + 1] = out[i + 1]]

\* where gen_password stands when out holds what it holds: in the loop over
\* the buckets, in the fill loop, in the shuffle (at its first index), or done
AfterPick(g, out) ==
    IF Len(out) < Len(Buckets(g)) THEN [g EXCEPT !.out = out, !.pc = "required"]
    ELSE IF Len(out) < g.len THEN [g EXCEPT !.out = out, !.pc = "fill"]
    ELSE IF Len(out) >= 2
    THEN [g EXCEPT !.out = out, !.pc = "shuffle", !.i = Len(out) - 1]
    ELSE [g EXCEPT !.out = out, !.pc = "done", !.res = "ok"]

\* no password is being generated and no vault is open
InitGen ==
    /\ db = EmptyDb
    /\ session = <<>>
    /\ rng = 1
    /\ last = NoCall
    /\ clean = TRUE
    /\ orphaned = {}

\* gen_password(len, no_upper, no_lower, no_digits, no_specials) up to its
\* first draw
GenStart ==
    /\ last = NoCall
    /\ \E len \in 0..MaxPwLen, nu \in BOOLEAN, nl \in BOOLEAN,
          nd \in BOOLEAN, ns \in BOOLEAN :
          LET g == [op |-> "gen_password", len |-> len, no_upper |-> nu,
                    no_lower |-> nl, no_digits |-> nd, no_specials |-> ns,
                    res |-> "running", pc |-> "required", out |-> <<>>, i |-> 0]
          IN last' = IF Buckets(g) = <<>>
                     THEN [g EXCEPT !.res = "err_all_disabled", !.pc = "done"]
                     ELSE IF too_short(len, Buckets(g))
                     THEN [g EXCEPT !.res = "err_too_short", !.pc = "done"]
                     ELSE g
    /\ UNCHANGED <<db, session, rng, clean, orphaned>>

\* 1) one char of each bucket
GenRequired ==
    /\ last.op = "gen_password" /\ last.pc = "required"
    /\ LET bucket == Buckets(last)[Len(last.out) + 1]
       IN \E j \in RandIndexes(Len(bucket)) :
            last' = AfterPick(last, Append(last.out, pick_one(bucket, j)))
    /\ UNCHANGED <<db, session, rng, clean, orphaned>>

\* 2) the rest from the union
GenFill ==
    /\ last.op = "gen_password" /\ last.pc = "fill"
    /\ \E j \in RandIndexes(Len(Union(last))) :
          last' = AfterPick(last, Append(last.out, pick_one(Union(last), j)))
    /\ UNCHANGED <<db, session, rng, clean, orphaned>>

\* 3) one round of the Fisher-Yates shuffle, i running down to 1
GenShuffle ==
    /\ last.op = "gen_password" /\ last.pc = "shuffle"
    /\ \E j \in RandIndexes(last.i + 1) :
          LET out == swap(last.out, last.i, j)
          IN last' = IF last.i > 1
                     THEN [last EXCEPT !.out = out, !.i = last.i - 1]
                     ELSE [last EXCEPT !.out = out, !.pc = "done", !.res = "ok"]
    /\ UNCHANGED <<db, session, rng, clean, orphaned>>

NextGen == GenStart \/ GenRequired \/ GenFill \/ GenShuffle

SpecGen == InitGen /\ [][NextGen]_vars

---------------------------------------------------------------------------
(* Generated passwords *)

\* the chars of a pool
CharsOf(pool) == {pool[k] : k \in 1..Len(pool)}

\* the pools of the classes a call has enabled
EnabledPools(g) ==
    (IF g.no_upper THEN {} ELSE {CharsOf(UPPERS)})
        \cup (IF g.no_lower THEN {} ELSE {CharsOf(LOWERS)})
        \cup (IF g.no_digits THEN {} ELSE {CharsOf(DIGITS)})
        \cup (IF g.no_specials THEN {} ELSE {CharsOf(SPECIALS)})

\* the glyphs that are easily confused
Ambiguous == {"I", "l", "1", "0", "O"}

C20_GeneratorValidation ==
    last.op = "gen_password"
        => /\ (last.res \in {"err_all_disabled", "err_too_short"})
                <=> (\/ EnabledPools(last) = {}
                     \/ last.len < Cardinality(EnabledPools(last)))
           /\ last.res \in {"err_all_disabled", "err_too_short", "running", "ok"}
           /\ (last.res = "ok" /\ last.len = Cardinality(EnabledPools(last)))
                => \A pool \in EnabledPools(last) :
                        Cardinality({k \in 1..Len(last.out) : last.out[k] \in pool}) = 1

\* a password of three chars was generated for three enabled classes
C20_Witness ==
    /\ last.op = "gen_password"
    /\ last.res = "ok"
    /\ last.len = 3
    /\ Cardinality(EnabledPools(last)) = 3

---------------------------------------------------------------------------
(* The vault from before its creation, and the commands that only read *)

\* a command that empties the three tables
ReadOnlyTruncating(res) == [steps |-> <<EmptyDb>>, res |-> res, used |-> 0, draws |-> <<0>>]

\* what a command that writes nothing to the vault hands to Finish
ReadOnly(res) == [steps |-> <<>>, res |-> res, used |-> 0, draws |-> <<>>]

\* A path is the sequence of its segments, the strings between the
\* separators: "./vault.db" is <<".", "vault.db">>.  All paths are relative
\* to the working directory, which holds the vault.
VaultPath == <<"vault.db">>

\* the paths a backup may be asked to write to
BackupPaths ==
    { <<"vault.db">>, <<".", "vault.db">>, <<"vault.db", ".">>,
      <<"backup.db">>, <<"out", "backup.db">> }

\* Path::components: empty segments and "." are dropped, except a "." that
\* starts the path
components(p) ==
    LET rest == SelectSeq(p, LAMBDA c : c # "" /\ c # ".")
    IN IF p # <<>> /\ p[1] = "." THEN <<".">> \o rest ELSE rest

\* dest == Path::new(src): paths are equal when their components are
PathEq(p, q) == components(p) = components(q)

\* Path::parent: the path without its last component
parent(p) == SubSeq(components(p), 1, Len(components(p)) - 1)

\* the place in the file system a path leads to
Place(p) == SelectSeq(p, LAMBDA c : c # "" /\ c # ".")

\* The file system beside the vault file: fs.files gives the content of
\* each file by its place, fs.dirs the places of the directories.
\* dest.exists()
path_exists(fs, p) ==
    \/ Place(p) = Place(VaultPath)
    \/ Place(p) \in DOMAIN fs.files
    \/ Place(p) \in fs.dirs

\* std::fs::create_dir_all: the directory and every missing ancestor
create_dir_all(fs, p) ==
    [fs EXCEPT !.dirs = @ \cup {SubSeq(Place(p), 1, k) : k \in 1..Len(Place(p))}]

\* backup_to_path(v, to, overwrite) on the vault d beside the files fs:
\* [res, fs].  busy is what SQLite answers when the destination connection
\* is on the file of the source connection: Backup::step returns
\* Ok(StepResult::Busy), which the code does not look at, or Err.
backup_to_path(d, fs, to, overwrite, busy) ==
    IF PathEq(to, VaultPath) THEN [res |-> "err_same_path", fs |-> fs]
    ELSE IF ~overwrite /\ path_exists(fs, to) THEN [res |-> "err_exists", fs |-> fs]
    ELSE LET fs1 == create_dir_all(fs, parent(to))
         IN IF Place(to) = Place(VaultPath)
            THEN [res |-> IF busy THEN "ok" ELSE "err_sqlite", fs |-> fs1]
            ELSE [res |-> "ok",
                  fs |-> [fs1 EXCEPT !.files =
                            [q \in DOMAIN @ \cup {Place(to)} |->
                                IF q = Place(to) THEN d ELSE @[q]]]]

\* the file system with nothing beside the vault
NoFiles == [files |-> [q \in {} |-> EmptyDb], dirs |-> {}]

\* no file at the path of the vault.  The values of getrandom are numbered
\* so that a vault, once created, is left one draw less than it is in Spec.
InitFresh ==
    /\ db = EmptyDb
    /\ session = <<>>
    /\ rng = FirstRand - Created.used + 1
    /\ last = NoCall
    /\ clean = TRUE
    /\ orphaned = {}

\* a command that only reads: it returns res, and what it hands to Finish
\* has no step to run
Reads(call, res) ==
    LET r == ReadOnly(res) IN Finish(call, r, Len(r.steps), session, TRUE)

\* list_items(v)
ListItems ==
    /\ session # <<>>
    /\ Reads([NoCall EXCEPT !.op = "list"],
             IF load_catalog_sorted(db, session[1]).ok THEN "ok" ELSE "err_auth")

\* search(v, query, limit, deep) with the query "a" and no limit
SearchItems ==
    /\ session # <<>>
    /\ \E deep \in BOOLEAN :
          Reads([NoCall EXCEPT !.op = IF deep THEN "search_deep" ELSE "search"],
                search(db, session[1], <<"a">>, 0, deep).res)

\* show_item(v, id)
ShowItem ==
    /\ session # <<>>
    /\ \E id \in Ids :
          Reads([NoCall EXCEPT !.op = "show", !.id = id],
                load_item(db, session[1], id).res)

\* resolve_selector_to_id(v, sel) with an index and with a prefix
ResolveSelector ==
    /\ session # <<>>
    /\ \E sel \in { <<"1">>, <<"a", "b", "c", "d">> } :
          Reads([NoCall EXCEPT !.op = "resolve"],
                resolve_selector_to_id(db, session[1], sel).res)

\* backup_to_path(v, to, overwrite), with nothing or an older backup at
\* backup.db
Backup ==
    /\ session # <<>>
    /\ \E to \in {VaultPath, <<"backup.db">>}, exists \in BOOLEAN,
          overwrite \in BOOLEAN :
          LET fs == IF exists
                    THEN [NoFiles EXCEPT !.files = (<<"backup.db">> :> EmptyDb)]
                    ELSE NoFiles
          IN Reads([NoCall EXCEPT !.op = "backup"],
                   backup_to_path(db, fs, to, overwrite, TRUE).res)

\* a vault from its creation on
SpecFresh == InitFresh /\ [][Next]_vars

\* a created vault with every command
NextAll ==
    Next \/ ListItems \/ SearchItems \/ ShowItem \/ ResolveSelector \/ Backup

SpecAll == Init /\ [][NextAll]_vars

---------------------------------------------------------------------------
(* Opening a vault, and its header *)

\* the header row as ensure_header and set_master_password write it: some
\* salt with the fixed parameters
DefaultHeader(h) ==
    /\ h.format_version = 1
    /\ h.kdf_mem_kib = 256 * 1024
    /\ h.kdf_iters = 3
    /\ h.kdf_parallelism = 1

\* C16: Vault::open creates the header row and the catalog row only when
\* they are absent: on a vault that has them it changes neither the salt and
\* the parameters nor the catalog row, and neither table ever holds a
\* second row.
C16_OpenCreatesOnlyWhenAbsent ==
    [][last'.op = "open"
       => /\ db.header # {} => db'.header = db.header
          /\ db.catalog # {} => db'.catalog = db.catalog
          /\ db'.items = db.items
          /\ Cardinality(db'.header) <= 1 /\ Cardinality(db'.catalog) <= 1
          /\ \A h \in db'.header : DefaultHeader(h)
          /\ last'.res = "ok"
                => Cardinality(db'.header) = 1 /\ Cardinality(db'.catalog) = 1]_vars

\* a vault was opened again with the password it was created with, and
\* nothing was created
C16_Witness ==
    /\ last.op = "open"
    /\ last.res = "ok"
    /\ last.now = 0
    /\ clean
    /\ db.catalog # {}
    /\ TheRow(db.catalog).ciphertext.k = KeyFor(db, last.pw)
    /\ session = <<KeyFor(db, last.pw)>>

\* C17: Vault::open of an existing vault with a password other than the one
\* its catalog is under returns a session without error and without writing
\* anything, and in that session load_catalog and load_item of every stored
\* row fail with an authentication error.
C17_WrongPasswordFailsAtFirstLoad ==
    [][(/\ last'.op = "open"
        /\ db.catalog # {}
        /\ TheRow(db.catalog).ciphertext.k # KeyFor(db, last'.pw))
       => /\ last'.res \in {"ok", "crash"}
          /\ db' = db
          /\ last'.res = "ok"
                => /\ session' = <<KeyFor(db, last'.pw)>>
                   /\ ~load_catalog(db', session'[1]).ok
                   /\ \A id \in RowIds(db') :
                        load_item(db', session'[1], id).res = "err_auth"]_vars

\* C18: the header row is written at creation with the fixed parameters
\* (256 MiB, 3 iterations, parallelism 1) and no call other than a
\* set_master_password that succeeds changes it: not open, add, edit,
\* delete, search, list, backup, nor a rotation that fails or is cut short.
C18_HeaderChangesOnlyByRotation ==
    [][/\ Cardinality(db.header) = 1 /\ Cardinality(db'.header) = 1
       /\ DefaultHeader(TheRow(db.header)) /\ DefaultHeader(TheRow(db'.header))
       /\ db'.header # db.header => (last'.op = "rotate" /\ last'.res = "ok")]_vars

\* a backup was written of a vault that holds an item and has been rotated
\* to another password, its header still with the fixed parameters
C18_Witness ==
    /\ last.op = "backup"
    /\ last.res = "ok"
    /\ RowIds(db) # {}
    /\ TheRow(db.header).kdf_salt # TheRow(Final(EmptyDb, Created.steps).header).kdf_salt
    /\ DefaultHeader(TheRow(db.header))

---------------------------------------------------------------------------
(* Backups *)

\* what an older backup holds: the vault as it was created
OldBackup == Final(EmptyDb, Created.steps)

\* what may lie beside the vault before a backup: nothing, an older backup
\* at backup.db, the directory out, an older backup in it
InitialFiles ==
    { [files |-> [q \in F |-> OldBackup], dirs |-> D] :
        F \in SUBSET { <<"backup.db">>, <<"out", "backup.db">> },
        D \in SUBSET { <<"out">> } }

\* a file lies in a directory that exists
WellFormed(fs) ==
    \A q \in DOMAIN fs.files : Len(q) > 1 => SubSeq(q, 1, Len(q) - 1) \in fs.dirs

InitBackup ==
    /\ \E s \in ViewAdds :
          /\ db = VaultWith(s)
          /\ rng = 1 + Created.used + 2 * Len(s)
    /\ session = <<Created.key>>
    /\ \E fs \in InitialFiles :
          /\ WellFormed(fs)
          /\ last = [op |-> "none", res |-> "ok", to |-> <<>>,
                     overwrite |-> FALSE, fs |-> fs]
    /\ clean = TRUE
    /\ orphaned = {}

\* backup_to_path(v, to, overwrite)
BackupTo ==
    /\ \E to \in BackupPaths, overwrite \in BOOLEAN, busy \in BOOLEAN :
          LET r == backup_to_path(db, last.fs, to, overwrite, busy)
          IN last' = [op |-> "backup", res |-> r.res, to |-> to,
                      overwrite |-> overwrite, fs |-> r.fs]
    /\ UNCHANGED <<db, session, rng, clean, orphaned>>

NextBackup == BackupTo

SpecBackup == InitBackup /\ [][NextBackup]_vars

\* C21: backup_to_path fails, creating no directory or file and leaving an
\* existing destination as it is, when the destination path leads to the
\* file of the vault and when something is at the destination and overwrite
\* is false; otherwise it creates the missing parent directories and leaves
\* a copy of the vault at the destination.  The vault is unchanged in every
\* case.
C21_BackupFailsOrCopies ==
    [][last'.op = "backup"
       => /\ db' = db
          /\ IF \/ Place(last'.to) = Place(VaultPath)
                \/ ~last'.overwrite /\ path_exists(last.fs, last'.to)
             THEN /\ last'.res \notin {"ok"}
                  /\ last'.fs = last.fs
             ELSE /\ last'.res = "ok"
                  /\ last'.fs.files[Place(last'.to)] = db
                  /\ \A k \in 1..(Len(Place(last'.to)) - 1) :
                        SubSeq(Place(last'.to), 1, k) \in last'.fs.dirs
                  /\ \A q \in DOMAIN last.fs.files \ {Place(last'.to)} :
                        q \in DOMAIN last'.fs.files
                            /\ last'.fs.files[q] = last.fs.files[q]]_vars

---------------------------------------------------------------------------
(* Nonces *)

\* the blob of a row
BlobOf(row) == [nonce |-> row.nonce, ciphertext |-> row.ciphertext]

\* the rows of d2 that hold a blob which d1 does not hold in the same row:
\* <<"catalog">> for the catalog row, the id for a row of items
WrittenRows(d1, d2) ==
    (IF d2.catalog # {}
        /\ (d1.catalog = {} \/ BlobOf(TheRow(d1.catalog)) # BlobOf(TheRow(d2.catalog)))
     THEN {<<"catalog">>} ELSE {})
    \cup {id \in RowIds(d2) :
            id \notin RowIds(d1) \/ BlobOf(d1.items[id]) # BlobOf(d2.items[id])}

\* the blob d holds in a row so named
BlobAt(d, row) ==
    IF row = <<"catalog">> THEN BlobOf(TheRow(d.catalog)) ELSE BlobOf(d.items[row])

\* C22: every blob a call writes (save_catalog, add, edit, each item and
\* the catalog in a rotation) is encrypted and stored under a value the
\* random source yielded during that call, each blob under a value of its
\* own; the blobs in the file, the catalog as Vault::open created it among
\* them, are under values the source yielded before, no two under the same.
\* With a source that never repeats, no two blobs ever written share a nonce.
C22_EveryBlobUnderFreshNonce ==
    [][/\ \A row \in WrittenRows(db, db') :
            /\ rng <= BlobAt(db', row).nonce /\ BlobAt(db', row).nonce < rng'
            /\ BlobAt(db', row).ciphertext.n = BlobAt(db', row).nonce
       /\ \A r1, r2 \in WrittenRows(db, db') :
            r1 # r2 => BlobAt(db', r1).nonce # BlobAt(db', r2).nonce
       /\ \A b \in Blobs(db) : b.nonce < rng
       /\ \A r1, r2 \in RowIds(db) \cup {<<"catalog">>} :
            r1 # r2 => BlobAt(db, r1).nonce # BlobAt(db, r2).nonce]_vars

\* a rotation re-encrypted an item and the catalog, and the blobs of the
\* file are under nonces that differ
C22_Witness ==
    /\ last.op = "rotate"
    /\ last.res = "ok"
    /\ RowIds(db) # {}
    /\ Cardinality({b.nonce : b \in Blobs(db)}) = 1 + Cardinality(RowIds(db))

---------------------------------------------------------------------------
(* Secrets in memory *)

\* A buffer a call allocated: the variable that owns it, what it holds, and
\* the type that owns it: "Zeroizing" for Zeroizing<T>, "ZeroizeOnDrop" for
\* a struct with #[zeroize(drop)], "Vec" for a plain Vec<u8>.
Buffer(var, holds, type) == [var |-> var, holds |-> holds, type |-> type]

\* the buffer after its owner is dropped: Zeroizing and #[zeroize(drop)]
\* overwrite it with zeros, the drop of a Vec frees it as it is
drop(b) ==
    IF b.type \in {"Zeroizing", "ZeroizeOnDrop"}
    THEN [b EXCEPT !.type = "freed", !.holds = <<>>]
    ELSE [b EXCEPT !.type = "freed"]

\* every buffer of a call dropped, at whichever exit the call took
DropAll(bufs) == [k \in 1..Len(bufs) |-> drop(bufs[k])]

\* show_item(v, id), that is load_item and the drop of the item it returned:
\* the buffers the call had allocated when it returned
show_item_buffers(d, key, id) ==
    LET r == load_item(d, key, id)
        pt == decrypt_blob(key, d.items[id].nonce, d.items[id].ciphertext)
    IN IF r.res \in {"err_notfound", "err_auth"} THEN <<>>
       ELSE IF r.res = "err_decode" THEN <<Buffer("pt", pt[1], "Vec")>>
       ELSE <<Buffer("pt", pt[1], "Vec"),
              Buffer("item", to_json_item(r.item[1]), "ZeroizeOnDrop")>>

\* list_items(v), that is load_catalog_sorted and the drop of its entries
list_items_buffers(d, key) ==
    LET r == load_catalog(d, key)
        row == TheRow(d.catalog)
        pt == decrypt_blob(key, row.nonce, row.ciphertext)
    IN IF ~r.ok THEN <<>>
       ELSE IF pt[1] = <<>> THEN <<Buffer("pt", pt[1], "Vec")>>
       ELSE <<Buffer("pt", pt[1], "Vec"),
              Buffer("entries", to_json_catalog(r.entries), "ZeroizeOnDrop")>>

\* the pt of each row the for loop of set_master_password decrypted
RECURSIVE rotate_item_buffers(_, _, _)
rotate_item_buffers(d, order, old_key) ==
    IF order = <<>> THEN <<>>
    ELSE LET row == d.items[Head(order)]
             pt == decrypt_blob(old_key, row.nonce, row.ciphertext)
         IN IF pt = <<>> THEN <<>>
            ELSE <<Buffer("pt", pt[1], "Vec")>>
                    \o rotate_item_buffers(d, Tail(order), old_key)

\* set_master_password(v, old_pw, new_pw): both keys, the pt of each item
\* and, when every item decrypted, the pt of the catalog
set_master_password_buffers(d, old_pw, new_pw, order, salt) ==
    LET old_key == derive_key_from_header(TheRow(d.header), old_pw)
        new_key == derive_key(new_pw, salt, KdfMemKib, KdfIters, KdfParallelism)
        items == rotate_item_buffers(d, order, old_key)
        row == TheRow(d.catalog)
        pt == decrypt_blob(old_key, row.nonce, row.ciphertext)
    IN <<Buffer("old_key", old_key, "Zeroizing"),
         Buffer("new_key", new_key, "Zeroizing")>>
       \o items
       \o (IF Len(items) = Len(order) /\ pt # <<>>
           THEN <<Buffer("pt", pt[1], "Vec")>> ELSE <<>>)

\* the vault and its session, with the right key or with a wrong one; last
\* is the call made and the memory it left behind
InitMem ==
    /\ \E s \in ViewAdds :
          /\ db = VaultWith(s)
          /\ rng = 1 + Created.used + 2 * Len(s)
    /\ \E pw \in Passwords : session = <<KeyFor(db, pw)>>
    /\ last = [op |-> "none", res |-> "ok", mem |-> <<>>]
    /\ clean = TRUE
    /\ orphaned = {}

\* show_item(v, id)
MemShow ==
    /\ last.op = "none"
    /\ \E id \in {IdA1, IdA2, IdB, IdD} :
          last' = [op |-> "show", res |-> load_item(db, session[1], id).res,
                   mem |-> DropAll(show_item_buffers(db, session[1], id))]
    /\ UNCHANGED <<db, session, rng, clean, orphaned>>

\* list_items(v)
MemList ==
    /\ last.op = "none"
    /\ last' = [op |-> "list",
                res |-> IF load_catalog(db, session[1]).ok THEN "ok" ELSE "err_auth",
                mem |-> DropAll(list_items_buffers(db, session[1]))]
    /\ UNCHANGED <<db, session, rng, clean, orphaned>>

\* set_master_password(v, old_pw, new_pw)
MemRotate ==
    /\ last.op = "none"
    /\ \E old_pw \in Passwords, new_pw \in Passwords, order \in Orders(db) :
          LET r == set_master_password(db, old_pw, new_pw, order, 1, rng)
          IN /\ db' = Final(db, r.steps)
             /\ rng' = rng + r.used
             /\ last' = [op |-> "rotate", res |-> r.res,
                         mem |-> DropAll(set_master_password_buffers(
                                            db, old_pw, new_pw, order, rng))]
    /\ UNCHANGED <<session, clean, orphaned>>

NextMem == MemShow \/ MemList \/ MemRotate

SpecMem == InitMem /\ [][NextMem]_vars

\* C23: when a call has returned, on whichever path (success, error, early
\* return), no buffer it allocated still holds secret material: keys and
\* decrypted plaintext have been overwritten with zeros before being freed.
C23_NoSecretLeftInMemory ==
    \A k \in 1..Len(last.mem) : last.mem[k].holds = <<>>

---------------------------------------------------------------------------
(* util.rs: rand_index *)

\* The widths, scaled down: a sample is SampleBits wide where u32 is 32, and
\* usize is twice as wide, as it is on a 64-bit target.
SampleBits == 4

SampleMax == 2^SampleBits - 1

UsizeMax == 2^(2 * SampleBits) - 1

\* the lengths rand_index is called with: small ones, those around the
\* width of a sample and the largest
RandLengths ==
    {n \in 0..UsizeMax : n <= SampleMax + 3 \/ n % (SampleMax + 1) = 0 \/ n = UsizeMax}

\* n as u32: the low bits of n
as_sample(n) == n % (SampleMax + 1)

\* u32::MAX - (u32::MAX % n32), for n32 > 0
limit_of(n32) == SampleMax - (SampleMax % n32)

\* what rand_index(n) does before its loop: the error for n = 0, the
\* panic of the remainder by zero, or the loop
rand_index_start(n) ==
    IF n = 0 THEN "err_empty"
    ELSE IF as_sample(n) = 0 THEN "panic"
    ELSE "running"

\* one turn of the loop with the sample x: <<index>> when x is accepted,
\* <<>> when it is rejected
rand_index_turn(n, x) ==
    IF x < limit_of(as_sample(n)) THEN <<x % as_sample(n)>> ELSE <<>>

InitRand ==
    /\ db = EmptyDb
    /\ session = <<>>
    /\ rng = 0
    /\ \E n \in RandLengths :
          last = [op |-> "none", n |-> n, res |-> "none", x |-> 0, out |-> 0]
    /\ clean = TRUE
    /\ orphaned = {}

\* rand_index(n) up to its loop
RandStart ==
    /\ last.op = "none"
    /\ last' = [last EXCEPT !.op = "rand_index", !.res = rand_index_start(last.n)]
    /\ UNCHANGED <<db, session, rng, clean, orphaned>>

\* one turn of the loop: getrandom yields x
RandTurn ==
    /\ last.op = "rand_index"
    /\ last.res = "running"
    /\ \E x \in 0..SampleMax :
          LET r == rand_index_turn(last.n, x)
          IN last' = [last EXCEPT !.x = x,
                                  !.res = IF r = <<>> THEN "running" ELSE "ok",
                                  !.out = IF r = <<>> THEN 0 ELSE r[1]]
    /\ UNCHANGED <<db, session, rng, clean, orphaned>>

NextRand == RandStart \/ RandTurn

SpecRand == InitRand /\ [][NextRand]_vars

\* the samples that make rand_index(n) return i
Preimages(n, i) ==
    {x \in 0..SampleMax : rand_index_turn(n, x) = <<i>>}

\* C24: rand_index(0) fails with an error; rand_index(n) for n >= 1 does
\* not divide by zero, returns an index in [0, n), and every index in
\* [0, n) is returned for the same number of samples, namely limit / n.
C24_RandIndexUniform ==
    last.op = "rand_index"
        => IF last.n = 0 THEN last.res = "err_empty"
           ELSE /\ last.res \in {"running", "ok"}
                /\ last.res = "ok" => last.out \in 0..(last.n - 1)
                /\ \A i, j \in 0..(last.n - 1) :
                      Cardinality(Preimages(last.n, i)) = Cardinality(Preimages(last.n, j))
                /\ Cardinality(Preimages(last.n, 0)) > 0

---------------------------------------------------------------------------
(* The ids of the catalog *)

\* C25: in every state of the file, those a crash between the two commits
\* of add, edit or delete left included, the catalog holds at most one
\* entry for each id.
C25_OneEntryPerId ==
    \A id \in Ids : Cardinality(Positions(CatalogEntries(db), id)) <= 1

\* an edit rewrote the entry of an item the catalog already listed
C25_Witness ==
    /\ last.op = "edit"
    /\ last.res = "ok"
    /\ ~last.healed
    /\ Cardinality(Positions(CatalogEntries(db), last.id)) = 1
    /\ CatalogEntries(db)[1].title = prompt_with_default(<<>>, last.typed.title)

---------------------------------------------------------------------------
(* The commands that read *)

---------------------------------------------------------------------------
(* What a rotation keeps *)

\* what decrypt_blob gives for a row under the key of password pw in d
DecryptedUnder(d, pw, row) == decrypt_blob(KeyFor(d, pw), row.nonce, row.ciphertext)

\* C27: a set_master_password that returns Ok changes no plaintext.  Each
\* item and the catalog decrypt under the new key to what they decrypted to
\* under the old key; the ids and every created_at are the same; the
\* entries of the catalog, their updated_at included, are the same, so the
\* sorted view and the order of search are; the updated_at columns of the
\* rows are set to one time, that of the rotation.
C27_RotationKeepsPlaintext ==
    [][(last'.op = "rotate" /\ last'.res = "ok")
       => /\ RowIds(db') = RowIds(db)
          /\ \A id \in RowIds(db) :
                /\ DecryptedUnder(db, last'.pw, db.items[id]) # <<>>
                /\ DecryptedUnder(db', last'.new_pw, db'.items[id])
                      = DecryptedUnder(db, last'.pw, db.items[id])
                /\ db'.items[id].created_at = db.items[id].created_at
          /\ DecryptedUnder(db, last'.pw, TheRow(db.catalog)) # <<>>
          /\ DecryptedUnder(db', last'.new_pw, TheRow(db'.catalog))
                = DecryptedUnder(db, last'.pw, TheRow(db.catalog))
          /\ CatalogEntries(db') = CatalogEntries(db)
          /\ SortByTitleId(CatalogEntries(db')) = SortByTitleId(CatalogEntries(db))
          /\ SortByUpdatedDesc(CatalogEntries(db')) = SortByUpdatedDesc(CatalogEntries(db))
          /\ \E now \in Times :
                /\ TheRow(db'.catalog).updated_at = now
                /\ \A id \in RowIds(db') : db'.items[id].updated_at = now]_vars

\* a rotation at a time other than the one the entry of its item carries
C27_Witness ==
    /\ last.op = "rotate"
    /\ last.res = "ok"
    /\ \E id \in RowIds(db) :
          /\ Positions(CatalogEntries(db), id) # {}
          /\ CatalogEntries(db)[FirstPosition(CatalogEntries(db), id)].updated_at
                # db.items[id].updated_at

---------------------------------------------------------------------------
(* The session after a rotation *)

\* C28: set_master_password leaves the key of the session as it is.  After
\* a rotation that returned Ok the session still holds the key from before,
\* under which load_catalog fails and load_item of every row fails with the
\* authentication error; the key Vault::open derives from the new password
\* decrypts the catalog and every row.
C28_SessionKeepsOldKey ==
    [][(last'.op = "rotate" /\ last'.res = "ok")
       => /\ session' = session
          /\ ~load_catalog(db', session'[1]).ok
          /\ \A id \in RowIds(db') :
                load_item(db', session'[1], id).res = "err_auth"
          /\ load_catalog(db', KeyFor(db', last'.new_pw)).ok
          /\ \A id \in RowIds(db') :
                load_item(db', KeyFor(db', last'.new_pw), id).res = "ok"]_vars

\* a session opened with the old password rotated a vault with an item to
\* another password and can no longer read the item
C28_Witness ==
    /\ last.op = "rotate"
    /\ last.res = "ok"
    /\ last.new_pw # last.pw
    /\ session = <<derive_key(last.pw, 1, KdfMemKib, KdfIters, KdfParallelism)>>
    /\ RowIds(db) # {}
    /\ \A id \in RowIds(db) : load_item(db, session[1], id).res = "err_auth"

---------------------------------------------------------------------------
(* delete_item in a session under a wrong key *)

\* C29: delete_item(id) of a row that is there, in a session whose key does
\* not decrypt the catalog, commits the removal of the row, whatever key
\* the row is under, then returns the authentication error of load_catalog:
\* the catalog row, and with it the entry of id, is as before, and so are
\* the header and the other rows.
C29_DeleteUnderWrongKeyRemovesRow ==
    [][(/\ last'.op = "delete"
        /\ last'.res # "crash"
        /\ last'.id \in RowIds(db)
        /\ ~load_catalog(db, session[1]).ok)
       => /\ last'.res = "err_auth"
          /\ last'.id \notin RowIds(db')
          /\ db'.catalog = db.catalog
          /\ db'.header = db.header
          /\ OtherRowsSame(db, db', last'.id)]_vars

\* the delete removed the row of an item that the catalog, under the key
\* of another password, still lists
C29_Witness ==
    /\ last.op = "delete"
    /\ last.res = "err_auth"
    /\ last.id \notin RowIds(db)
    /\ last.id \in CatalogIds(db)
    /\ session # <<>>
    /\ TheRow(db.catalog).ciphertext.k # session[1]

---------------------------------------------------------------------------
(* Deep search over entries whose row is gone *)

\* the vault after delete_item removed the rows of the ids in gone and then
\* failed to load the catalog, its session being under the key of "pw2"
RECURSIVE WithoutRows(_, _)
WithoutRows(d, gone) ==
    IF gone = {} THEN d
    ELSE LET id == CHOOSE i \in gone : TRUE
             d1 == WithoutRows(d, gone \ {id})
         IN Final(d1, delete_item(d1, KeyFor(d1, "pw2"), id, 1, 0).steps)

\* vaults in which the catalog lists items whose row is gone
InitDeep ==
    /\ \E s \in ViewAdds :
          \E gone \in SUBSET {s[k].id : k \in 1..Len(s)} :
             /\ db = WithoutRows(VaultWith(s), gone)
             /\ rng = 1 + Created.used + 2 * Len(s)
    /\ session = <<Created.key>>
    /\ last = NoCall
    /\ clean = TRUE
    /\ orphaned = {}

NextDeep == Search

SpecDeep == InitDeep /\ [][NextDeep]_vars

\* load_item of the row of entry e succeeds in the session
Loads(e) == load_item(db, session[1], e.id).res = "ok"

\* a deep search cannot go past e: its title does not match the query and
\* its row does not load
Blocks(e) == ~TitleHit(e) /\ ~Loads(e)

\* e is a hit of a deep search
DeepHit(e) == TitleHit(e) \/ (Loads(e) /\ (UserHit(e) \/ NotesHit(e)))

\* the scan of the last search, over order, gets to the k-th entry: none
\* before it blocks, and the hits before it are fewer than the limit
Reaches(order, k) ==
    /\ \A j \in 1..(k - 1) : ~Blocks(order[j])
    /\ \/ last.limit = 0
       \/ Len(SelectSeq(SubSeq(order, 1, k - 1), DeepHit)) < last.limit

\* C30: a deep search returns an error, and none of the hits it had
\* collected, exactly when its scan reaches an entry whose title does not
\* match and whose row is absent or does not decrypt or decode; an entry
\* behind the limit-th hit is not reached and does not make it fail.
C30_DeepSearchFailsOnUnreadableItem ==
    (last.op = "search" /\ last.deep /\ load_catalog(db, session[1]).ok)
        => LET order == SortByUpdatedDesc(CatalogEntries(db))
               blocked == \E k \in 1..Len(order) :
                             Reaches(order, k) /\ Blocks(order[k])
           IN IF blocked
              THEN last.res \in {"err_notfound", "err_auth", "err_decode"}
                      /\ last.results = <<>>
              ELSE last.res = "ok"

\* a deep search had a hit and then came to an entry whose row is gone: it
\* returned the error and no hit
C30_Witness ==
    /\ last.op = "search"
    /\ last.deep
    /\ last.res = "err_notfound"
    /\ last.results = <<>>
    /\ last.scanned >= 2
    /\ DeepHit(SortByUpdatedDesc(CatalogEntries(db))[1])

---------------------------------------------------------------------------
(* What search matches on *)

\* the "Matching Fields" column search prints for a result
matching_fields(result) ==
    (IF result.hit_title THEN <<"title">> ELSE <<>>)
        \o (IF result.hit_user THEN <<"username">> ELSE <<>>)
        \o (IF result.hit_notes THEN <<"notes">> ELSE <<>>)

\* the password of the item of e contains the query, case-insensitively
PasswordHit(e) ==
    contains(to_lowercase(PlainOf(db.items[e.id]).password), to_lowercase(last.query))

\* C31: search never matches on the password: whatever the query, the limit
\* and the deep flag, every result is an entry whose title, username or notes
\* contain the query, so an item that holds the query in its password only is
\* no hit, and the matching fields printed for a result are among title,
\* username and notes, each named only if that field contains the query.
C31_SearchNeverMatchesPassword ==
    (last.op = "search")
        => \A k \in 1..Len(last.results) :
              LET e == EntryOf(last.results[k])
                  fields == matching_fields(last.results[k])
                  Named(f) == \E j \in 1..Len(fields) : fields[j] = f
              IN /\ e \in EntrySet(CatalogEntries(db))
                 /\ TitleHit(e) \/ UserHit(e) \/ NotesHit(e)
                 /\ fields # <<>>
                 /\ \A j \in 1..Len(fields) :
                       fields[j] \in {"title", "username", "notes"}
                 /\ Named("title") => TitleHit(e)
                 /\ Named("username") => UserHit(e)
                 /\ Named("notes") => NotesHit(e)

\* a deep search for "p" decrypted every item of a vault of three, each with
\* the query in its password, and reported no hit
C31_Witness ==
    /\ last.op = "search"
    /\ last.deep
    /\ last.query = <<"p">>
    /\ last.res = "ok"
    /\ last.results = <<>>
    /\ Len(last.decrypted) = 3
    /\ \A k \in 1..Len(CatalogEntries(db)) : PasswordHit(CatalogEntries(db)[k])

---------------------------------------------------------------------------
(* Selectors over a vault that holds rows the catalog does not list *)

\* the vault after add_item_interactive inserted the rows of the items in
\* extras and each time stopped after the commit of the INSERT, before its
\* save_catalog; r is the count of getrandom calls so far
RECURSIVE WithUnlistedRows(_, _, _)
WithUnlistedRows(d, extras, r) ==
    IF extras = {} THEN d
    ELSE LET e == CHOOSE x \in extras : TRUE
             d1 == WithUnlistedRows(d, extras \ {e}, r)
             typed == [title |-> e.title, username |-> e.username,
                       password |-> e.password, notes |-> e.notes]
             add == add_item_interactive(d1, Created.key, typed, e.id, e.at,
                                         r + Cardinality(extras))
         IN add.steps[2]

\* vaults in which items holds rows without a catalog entry
InitOrphan ==
    /\ \E s \in ViewAdds :
          \E extras \in SUBSET (ViewItems \ {s[k] : k \in 1..Len(s)}) :
             /\ extras # {}
             /\ db = WithUnlistedRows(VaultWith(s), extras,
                                      Created.used + 2 * Len(s))
             /\ rng = 1 + Created.used + 2 * Len(s) + Cardinality(extras)
    /\ session = <<Created.key>>
    /\ last = NoCall
    /\ clean = TRUE
    /\ orphaned = {}

NextOrphan == Resolve

SpecOrphan == InitOrphan /\ [][NextOrphan]_vars

\* the ids of the rows of items that the catalog does not list
UnlistedIds(d) == RowIds(d) \ CatalogIds(d)

\* C32: resolve_selector_to_id returns only ids of catalog entries: for no
\* selector, index or prefix, is the id it returns that of a row of items
\* without a catalog entry, and a prefix that only such rows start with
\* matches nothing.
C32_ResolveReturnsListedIdsOnly ==
    (last.op = "resolve")
        => /\ last.res = "ok" => last.id \in CatalogIds(db)
           /\ last.id \notin UnlistedIds(db)
           /\ LET prefix == to_lowercase(Trim(last.sel))
                  Starts(ids) == {i \in ids : starts_with(i, prefix)}
              IN (/\ CatalogIds(db) # {}
                  /\ \E k \in 1..Len(last.sel) : ~is_ascii_digit(last.sel[k])
                  /\ StrByteLen(prefix) >= 4
                  /\ Starts(CatalogIds(db)) = {})
                     => last.res = "err_no_match"

\* the prefix "aaaa" starts the id of a listed item and the id of an unlisted
\* row: it resolved to the listed one and was not ambiguous
C32_Witness ==
    /\ last.op = "resolve"
    /\ last.sel = <<"a", "a", "a", "a">>
    /\ last.res = "ok"
    /\ last.id = IdA1
    /\ IdA2 \in UnlistedIds(db)
    /\ IdA2 \in RowIds(db)

====
